---- MODULE Spec2Model ----
(***************************************************************************)
(* Routeflare: a controller that reconciles DNS records at Cloudflare with *)
(* the annotations of the cluster's HTTPRoutes.                            *)
(*                                                                         *)
(* The model follows the sources:                                          *)
(*   pkg/controller/httproute.go, pkg/controller/controller.go  controller *)
(*   pkg/cloudflare/client.go     the adapter the controller is built on   *)
(*   unnamed/part_000             the adapter with ownership checking      *)
(*   pkg/gateway/gateway.go, unnamed/part_002, pkg/config/config.go        *)
(*                                                                         *)
(* Strings that the code only compares are TLA+ strings.  Strings the code *)
(* takes apart are sequences: a hostname is its sequence of dot-separated  *)
(* labels, a ttl annotation its sequence of characters, an annotation key  *)
(* the pair <<prefix, setting>>.                                           *)
(***************************************************************************)
EXTENDS Integers, Sequences, FiniteSets, TLC

VARIABLES
    cfg,            \* Controller.cfg
    cache,          \* the informer's store: route key -> HTTPRoute object
    queue,          \* notifications the informer has not yet handed to a handler
    gateways,       \* the cluster's Gateways: gateway key -> status.addresses
    publicIP,       \* what the two address lookup services answer now
    records,        \* the provider's zone contents: <<name, type>> -> record
    trackedRoutes,  \* Controller.trackedRoutes
    pc,             \* where each goroutine stands
    frame,          \* the locals of the dispatch each goroutine is in
    sweep,          \* the locals of runReconciliationJob's current tick
    log,            \* per goroutine, the adapter calls of its current dispatch
    adapter,        \* the last direct call of the ownership-checking adapter
    watcher,        \* the watch of watchHTTPRoutes and where its loop stands
    run             \* Controller.ctx and routesMutex, and what Run has started

vars == <<cfg, cache, queue, gateways, publicIP, records, trackedRoutes,
          pc, frame, sweep, log, adapter, watcher, run>>

-----------------------------------------------------------------------------
(* Bounds of the model.                                                    *)

MaxTTLLen == 3
MaxQueue == 1
MaxWatches == 2
MaxIPs == 2
MaxStrategyLen == 4

-----------------------------------------------------------------------------
(* Options and maps.                                                       *)

None == <<>>
Some(v) == <<v>>

MapPut(m, k, v) == [x \in DOMAIN m \cup {k} |-> IF x = k THEN v ELSE m[x]]
MapDel(m, k) == [x \in DOMAIN m \ {k} |-> m[x]]
EmptyMap == [x \in {} |-> 0]

\* Go's m[k] on a map[string]string: the zero value when the key is absent.
MapGet(m, k, zero) == IF k \in DOMAIN m THEN m[k] ELSE zero

RECURSIVE SeqsUpTo(_, _)
SeqsUpTo(S, n) ==
    IF n = 0 THEN {<<>>}
    ELSE LET shorter == SeqsUpTo(S, n - 1)
         IN shorter \cup {Append(s, c) : s \in shorter, c \in S}

-----------------------------------------------------------------------------
(* IP literals: net.ParseIP and To4.                                       *)

IPv4Literals == {"203.0.113.5", "203.0.113.9", "198.51.100.7"}
\* An IPv4-mapped IPv6 address parses, and To4() gives its IPv4 form.
IPv4MappedLiterals == {"::ffff:198.51.100.7"}
IPv6Literals == {"2001:db8::5", "2001:db8::9"}

\* net.ParseIP(s).To4(): "v4", "v6", or "nil" when s does not parse.
ParseIP(s) ==
    IF s \in IPv4Literals \cup IPv4MappedLiterals THEN "v4"
    ELSE IF s \in IPv6Literals THEN "v6"
    ELSE "nil"

isIPv6(ip) == ParseIP(ip) # "nil" /\ ParseIP(ip) # "v4"

isIPv4(ip) == ParseIP(ip) # "nil" /\ ParseIP(ip) = "v4"

\* Faulty variant of ipsEqual: no two address lists are equal.
ipsEqualNever(a, b) == FALSE

\* Faulty variant of ipsEqual: only the lengths are compared.
ipsEqualLen(a, b) == Len(a) = Len(b)

ipsEqual(a, b) ==
    IF Len(a) # Len(b) THEN FALSE
    ELSE \A i \in 1..Len(a) : a[i] = b[i]

-----------------------------------------------------------------------------
(* strconv.Atoi, ParseTTL, ParseProxied.                                   *)

Digits == {"0", "1", "2", "3", "4", "5", "6", "7", "8", "9"}

DigitVal(c) ==
    CASE c = "0" -> 0 [] c = "1" -> 1 [] c = "2" -> 2 [] c = "3" -> 3
      [] c = "4" -> 4 [] c = "5" -> 5 [] c = "6" -> 6 [] c = "7" -> 7
      [] c = "8" -> 8 [] c = "9" -> 9

RECURSIVE DecimalValue(_)
DecimalValue(s) ==
    IF Len(s) = 0 THEN 0
    ELSE 10 * DecimalValue(SubSeq(s, 1, Len(s) - 1)) + DigitVal(s[Len(s)])

\* strconv.Atoi: an optional sign, then one or more decimal digits.  (The
\* range error needs more digits than a ttl of the model has.)
Atoi(s) ==
    LET signed == Len(s) > 0 /\ s[1] \in {"+", "-"}
        body == IF signed THEN Tail(s) ELSE s
    IN IF Len(body) = 0 \/ \E i \in 1..Len(body) : body[i] \notin Digits
       THEN [n |-> 0, err |-> TRUE]
       ELSE [n |-> IF signed /\ s[1] = "-" THEN 0 - DecimalValue(body)
                   ELSE DecimalValue(body),
             err |-> FALSE]

Auto == <<"a", "u", "t", "o">>

\* Faulty variant of ParseTTL: a parsed value below 1 is passed on.
ParseTTLNoClamp(ttlStr) ==
    IF ttlStr = <<>> \/ ttlStr = Auto THEN [ttl |-> 1, err |-> FALSE]
    ELSE LET r == Atoi(ttlStr)
         IN IF r.err THEN [ttl |-> 0, err |-> TRUE]
            ELSE [ttl |-> r.n, err |-> FALSE]

ParseTTL(ttlStr) ==
    IF ttlStr = <<>> \/ ttlStr = Auto THEN [ttl |-> 1, err |-> FALSE]
    ELSE LET r == Atoi(ttlStr)
         IN IF r.err THEN [ttl |-> 0, err |-> TRUE]
            ELSE IF r.n < 1 THEN [ttl |-> 1, err |-> FALSE]
            ELSE [ttl |-> r.n, err |-> FALSE]

\* strconv.ParseBool accepts exactly these spellings.
ParseProxied(proxiedStr) ==
    IF proxiedStr = "" THEN [proxied |-> FALSE, err |-> FALSE]
    ELSE IF proxiedStr \in {"1", "t", "T", "TRUE", "true", "True"}
         THEN [proxied |-> TRUE, err |-> FALSE]
    ELSE IF proxiedStr \in {"0", "f", "F", "FALSE", "false", "False"}
         THEN [proxied |-> FALSE, err |-> FALSE]
    ELSE [proxied |-> FALSE, err |-> TRUE]

-----------------------------------------------------------------------------
(* Annotations, hostnames, zones.                                          *)

annotationPrefix == "routeflare/"

Ann(setting) == <<annotationPrefix, setting>>

\* The settings under the routeflare/ prefix, the prefix stripped.
extractRouteflareAnnotations(annotations) ==
    LET mine == {key \in DOMAIN annotations : key[1] = annotationPrefix}
    IN [setting \in {key[2] : key \in mine} |-> annotations[<<annotationPrefix, setting>>]]

getRecordNameFromHTTPRoute(route) ==
    IF Len(route.hostnames) = 0 THEN [name |-> <<>>, err |-> TRUE]
    ELSE [name |-> route.hostnames[1], err |-> FALSE]

\* Faulty variant of extractZoneFromRecordName: the zone is the first two labels.
extractZoneFromRecordNameFirstTwo(recordName) ==
    IF Len(recordName) < 2 THEN [zone |-> <<>>, err |-> TRUE]
    ELSE [zone |-> SubSeq(recordName, 1, 2), err |-> FALSE]

\* strings.Split(recordName, ".") is the label sequence itself; the zone is
\* its last two labels.
extractZoneFromRecordName(recordName) ==
    IF Len(recordName) < 2 THEN [zone |-> <<>>, err |-> TRUE]
    ELSE [zone |-> SubSeq(recordName, Len(recordName) - 1, Len(recordName)),
          err |-> FALSE]

RouteKey(namespace, name) == <<namespace, name>>

-----------------------------------------------------------------------------
(* The provider.  A zone holds at most one record per <<name, type>>; the  *)
(* provider's id of a record is fixed by that pair.  Every call of the     *)
(* provider's API may fail: net.list says whether ListDNSRecords answers,  *)
(* net.mutate whether Create/Update/DeleteDNSRecord does.                  *)

RecordID(name, type) == <<"id", name, type>>

Nets == [list : BOOLEAN, mutate : BOOLEAN]

AllUp == [list |-> TRUE, mutate |-> TRUE]

\* What a call returns: the zone afterwards, the error ("" is nil), the record
\* returned (if any), and the provider API calls it made.
Result(recs, err, api) == [records |-> recs, err |-> err, api |-> api]

(* unnamed/part_000: the adapter with ownership checking.                  *)

FindRecord(recs, recordName, recordType, net) ==
    IF ~net.list THEN [rec |-> None, err |-> "list"]
    ELSE IF <<recordName, recordType>> \in DOMAIN recs
         THEN [rec |-> Some(recs[<<recordName, recordType>>]), err |-> ""]
    ELSE [rec |-> None, err |-> ""]

createRecord(recs, record, net) ==
    IF ~net.mutate THEN Result(recs, "create", <<"CreateDNSRecord">>)
    ELSE Result(MapPut(recs, <<record.Name, record.Type>>,
                       [ID |-> RecordID(record.Name, record.Type),
                        Type |-> record.Type, Name |-> record.Name,
                        Content |-> record.Content, TTL |-> record.TTL,
                        Proxied |-> record.Proxied, Comment |-> record.Comment]),
                "", <<"CreateDNSRecord">>)

\* Faulty variant of updateRecord: the update is sent even when nothing differs.
updateRecordAlways(recs, currentRecord, record, net) ==
    LET wanted == [record EXCEPT !.ID = currentRecord.ID]
    IN IF ~net.mutate THEN Result(recs, "update", <<"UpdateDNSRecord">>)
       ELSE Result(MapPut(recs, <<currentRecord.Name, currentRecord.Type>>, wanted),
                   "", <<"UpdateDNSRecord">>)

updateRecord(recs, currentRecord, record, net) ==
    LET wanted == [record EXCEPT !.ID = currentRecord.ID]
    IN IF currentRecord = wanted THEN Result(recs, "", <<>>)
       ELSE IF ~net.mutate THEN Result(recs, "update", <<"UpdateDNSRecord">>)
       ELSE Result(MapPut(recs, <<currentRecord.Name, currentRecord.Type>>, wanted),
                   "", <<"UpdateDNSRecord">>)

\* Faulty variant of DeleteRecord: the delete request is sent for the record
\* asked for without looking at what was found.
DeleteRecordBlind(recs, record, net) ==
    LET found == FindRecord(recs, record.Name, record.Type, net)
    IN IF found.err # "" THEN Result(recs, "find", <<"ListDNSRecords">>)
       ELSE IF ~net.mutate \/ found.rec = None
            THEN Result(recs, "delete", <<"ListDNSRecords", "DeleteDNSRecord">>)
       ELSE Result(MapDel(recs, <<record.Name, record.Type>>), "",
                   <<"ListDNSRecords", "DeleteDNSRecord">>)

\* Faulty variant of DeleteRecord: the ownership check is left out.
DeleteRecordUnchecked(recs, record, net) ==
    LET found == FindRecord(recs, record.Name, record.Type, net)
    IN IF found.err # "" THEN Result(recs, "find", <<"ListDNSRecords">>)
       ELSE IF found.rec = None THEN Result(recs, "", <<"ListDNSRecords">>)
       ELSE IF ~net.mutate
            THEN Result(recs, "delete", <<"ListDNSRecords", "DeleteDNSRecord">>)
       ELSE Result(MapDel(recs, <<record.Name, record.Type>>), "",
                   <<"ListDNSRecords", "DeleteDNSRecord">>)

DeleteRecord(recs, record, net) ==
    LET found == FindRecord(recs, record.Name, record.Type, net)
    IN IF found.err # "" THEN Result(recs, "find", <<"ListDNSRecords">>)
       ELSE IF found.rec = None THEN Result(recs, "", <<"ListDNSRecords">>)
       ELSE LET existing == found.rec[1]
            IN IF existing.Comment # "" /\ existing.Comment # record.Comment
               THEN Result(recs, "conflict", <<"ListDNSRecords">>)
               ELSE IF ~net.mutate
                    THEN Result(recs, "delete", <<"ListDNSRecords", "DeleteDNSRecord">>)
               ELSE Result(MapDel(recs, <<existing.Name, existing.Type>>), "",
                           <<"ListDNSRecords", "DeleteDNSRecord">>)

UpsertRecord(recs, record, net) ==
    LET found == FindRecord(recs, record.Name, record.Type, net)
    IN IF found.err # "" THEN Result(recs, "find", <<"ListDNSRecords">>)
       ELSE IF found.rec # None
            THEN LET existing == found.rec[1]
                 IN IF existing.Comment # "" /\ existing.Comment # record.Comment
                    THEN Result(recs, "conflict", <<"ListDNSRecords">>)
                    ELSE LET r == updateRecord(recs, existing, record, net)
                         IN Result(r.records, r.err, <<"ListDNSRecords">> \o r.api)
       ELSE LET r == createRecord(recs, record, net)
            IN Result(r.records, r.err, <<"ListDNSRecords">> \o r.api)

(* pkg/cloudflare/client.go: the adapter the controller of                 *)
(* pkg/controller is written against.  Its DNSRecord has no Comment, and   *)
(* its calls neither read nor send the provider's comment.                 *)

Unowned(rec) ==
    [ID |-> rec.ID, Type |-> rec.Type, Name |-> rec.Name,
     Content |-> rec.Content, TTL |-> rec.TTL, Proxied |-> rec.Proxied]

FindRecordUnowned(recs, recordName, recordType, net) ==
    IF ~net.list THEN [rec |-> None, err |-> "list"]
    ELSE IF <<recordName, recordType>> \in DOMAIN recs
         THEN [rec |-> Some(Unowned(recs[<<recordName, recordType>>])), err |-> ""]
    ELSE [rec |-> None, err |-> ""]

CreateRecord(recs, record, net) ==
    IF ~net.mutate THEN Result(recs, "create", <<"CreateDNSRecord">>)
    ELSE Result(MapPut(recs, <<record.Name, record.Type>>,
                       [ID |-> RecordID(record.Name, record.Type),
                        Type |-> record.Type, Name |-> record.Name,
                        Content |-> record.Content, TTL |-> record.TTL,
                        Proxied |-> record.Proxied, Comment |-> ""]),
                "", <<"CreateDNSRecord">>)

\* Faulty variant of UpdateRecord: every existing record counts as up to date.
UpdateRecordNoOp(recs, currentRecord, record, net) ==
    Result(recs, "", <<>>)

UpdateRecord(recs, currentRecord, record, net) ==
    LET wanted == [record EXCEPT !.ID = currentRecord.ID]
        key == <<currentRecord.Name, currentRecord.Type>>
    IN IF currentRecord = wanted THEN Result(recs, "", <<>>)
       ELSE IF ~net.mutate THEN Result(recs, "update", <<"UpdateDNSRecord">>)
       ELSE Result(MapPut(recs, key,
                          [ID |-> wanted.ID, Type |-> wanted.Type, Name |-> wanted.Name,
                           Content |-> wanted.Content, TTL |-> wanted.TTL,
                           Proxied |-> wanted.Proxied, Comment |-> recs[key].Comment]),
                   "", <<"UpdateDNSRecord">>)

DeleteRecordByID(recs, recordID, net) ==
    LET hit == {key \in DOMAIN recs : recs[key].ID = recordID}
    IN IF ~net.mutate \/ hit = {} THEN Result(recs, "delete", <<"DeleteDNSRecord">>)
       ELSE Result([key \in DOMAIN recs \ hit |-> recs[key]], "", <<"DeleteDNSRecord">>)

UpsertRecordUnowned(recs, record, net) ==
    LET found == FindRecordUnowned(recs, record.Name, record.Type, net)
    IN IF found.err # "" THEN Result(recs, "find", <<"ListDNSRecords">>)
       ELSE IF found.rec # None
            THEN LET r == UpdateRecord(recs, found.rec[1], record, net)
                 IN Result(r.records, r.err, <<"ListDNSRecords">> \o r.api)
       ELSE LET r == CreateRecord(recs, record, net)
            IN Result(r.records, r.err, <<"ListDNSRecords">> \o r.api)

-----------------------------------------------------------------------------
(* pkg/gateway/gateway.go and unnamed/part_002 (package ddns): where the    *)
(* addresses come from.                                                    *)

\* Faulty variant of GetGatewayAddresses: for type A the last IPv4 address is
\* taken, and the other types are refused.
GetGatewayAddressesLast(gatewayObj, recordType) ==
    LET ipv4Addrs == IF gatewayObj.addresses = None THEN <<>>
                     ELSE SelectSeq(gatewayObj.addresses[1], LAMBDA a : ParseIP(a) = "v4")
    IN IF recordType = "A" /\ Len(ipv4Addrs) > 0
       THEN [ips |-> <<ipv4Addrs[Len(ipv4Addrs)]>>, err |-> FALSE]
       ELSE [ips |-> <<>>, err |-> TRUE]

\* Faulty variant of GetGatewayAddresses: every address of the family is
\* returned, in the listed order.
GetGatewayAddressesAll(gatewayObj, recordType) ==
    IF gatewayObj.addresses = None THEN [ips |-> <<>>, err |-> TRUE]
    ELSE LET addresses == gatewayObj.addresses[1]
             wanted == SelectSeq(addresses,
                                 LAMBDA a : \/ recordType \in {"A", "A/AAAA"} /\ ParseIP(a) = "v4"
                                            \/ recordType \in {"AAAA", "A/AAAA"} /\ ParseIP(a) = "v6")
         IN IF Len(wanted) = 0 THEN [ips |-> <<>>, err |-> TRUE]
            ELSE [ips |-> wanted, err |-> FALSE]

\* gatewayObj.addresses: None when the Gateway has no status.addresses, else
\* the "value" strings in their listed order.
GetGatewayAddresses(gatewayObj, recordType) ==
    IF gatewayObj.addresses = None THEN [ips |-> <<>>, err |-> TRUE]
    ELSE LET addresses == gatewayObj.addresses[1]
             ipv4Addrs == SelectSeq(addresses, LAMBDA a : ParseIP(a) = "v4")
             ipv6Addrs == SelectSeq(addresses, LAMBDA a : ParseIP(a) = "v6")
         IN CASE recordType = "A" ->
                    IF Len(ipv4Addrs) = 0 THEN [ips |-> <<>>, err |-> TRUE]
                    ELSE [ips |-> <<ipv4Addrs[1]>>, err |-> FALSE]
              [] recordType = "AAAA" ->
                    IF Len(ipv6Addrs) = 0 THEN [ips |-> <<>>, err |-> TRUE]
                    ELSE [ips |-> <<ipv6Addrs[1]>>, err |-> FALSE]
              [] recordType = "A/AAAA" ->
                    LET result == (IF Len(ipv4Addrs) > 0 THEN <<ipv4Addrs[1]>> ELSE <<>>)
                                  \o (IF Len(ipv6Addrs) > 0 THEN <<ipv6Addrs[1]>> ELSE <<>>)
                    IN IF Len(result) = 0 THEN [ips |-> <<>>, err |-> TRUE]
                       ELSE [ips |-> result, err |-> FALSE]
              [] OTHER -> [ips |-> <<>>, err |-> TRUE]

\* Faulty variant of getPublicIP: any literal that parses is returned.
getPublicIPAnyFamily(answer, ipType) ==
    IF answer = None THEN [ip |-> "", err |-> TRUE]
    ELSE IF ParseIP(answer[1]) = "nil" THEN [ip |-> "", err |-> TRUE]
    ELSE [ip |-> answer[1], err |-> FALSE]

\* answer: None when the request fails or the status is not 200, else the body.
getPublicIP(answer, ipType) ==
    IF answer = None THEN [ip |-> "", err |-> TRUE]
    ELSE IF ParseIP(answer[1]) = "nil" THEN [ip |-> "", err |-> TRUE]
    ELSE IF ipType = "IPv4" /\ ParseIP(answer[1]) # "v4" THEN [ip |-> "", err |-> TRUE]
    ELSE IF ipType = "IPv6" /\ ParseIP(answer[1]) = "v4" THEN [ip |-> "", err |-> TRUE]
    ELSE [ip |-> answer[1], err |-> FALSE]

GetPublicIPv4(services) == getPublicIP(services.v4, "IPv4")

GetPublicIPv6(services) == getPublicIP(services.v6, "IPv6")

\* Faulty variant of GetPublicIPs: the IPv6 answer is placed before the IPv4 one.
GetPublicIPsV6First(services) ==
    LET r4 == GetPublicIPv4(services)
        r6 == GetPublicIPv6(services)
        ips == (IF r6.err THEN <<>> ELSE <<r6.ip>>) \o (IF r4.err THEN <<>> ELSE <<r4.ip>>)
    IN IF ips = <<>> THEN [ips |-> <<>>, err |-> TRUE] ELSE [ips |-> ips, err |-> FALSE]

GetPublicIPs(services) ==
    LET ipv4 == GetPublicIPv4(services)
        ipv6 == GetPublicIPv6(services)
        ips == (IF ~ipv4.err THEN <<ipv4.ip>> ELSE <<>>)
               \o (IF ~ipv6.err THEN <<ipv6.ip>> ELSE <<>>)
    IN IF Len(ips) = 0 THEN [ips |-> <<>>, err |-> TRUE]
       ELSE [ips |-> ips, err |-> FALSE]

\* Faulty variant of GetPublicIPsByType: a record type it does not know is
\* taken for A.
GetPublicIPsByTypeDefaultA(services, recordType) ==
    IF recordType = "AAAA"
    THEN LET r == GetPublicIPv6(services)
         IN IF r.err THEN [ips |-> <<>>, err |-> TRUE] ELSE [ips |-> <<r.ip>>, err |-> FALSE]
    ELSE IF recordType = "A/AAAA" THEN GetPublicIPs(services)
    ELSE LET r == GetPublicIPv4(services)
         IN IF r.err THEN [ips |-> <<>>, err |-> TRUE] ELSE [ips |-> <<r.ip>>, err |-> FALSE]

GetPublicIPsByType(services, recordType) ==
    CASE recordType = "A" ->
            LET r == GetPublicIPv4(services)
            IN IF r.err THEN [ips |-> <<>>, err |-> TRUE] ELSE [ips |-> <<r.ip>>, err |-> FALSE]
      [] recordType = "AAAA" ->
            LET r == GetPublicIPv6(services)
            IN IF r.err THEN [ips |-> <<>>, err |-> TRUE] ELSE [ips |-> <<r.ip>>, err |-> FALSE]
      [] recordType = "A/AAAA" -> GetPublicIPs(services)
      [] OTHER -> [ips |-> <<>>, err |-> TRUE]

-----------------------------------------------------------------------------
(* pkg/config/config.go                                                    *)

StrategyFull == "full"
StrategyUpsertOnly == "upsert-only"

\* Faulty variant of ToLower: the text is left as it is.
ToLowerKeepCase(str) == str

\* strings.ToLower on a text given as its characters.
ToLower(str) ==
    LET lower == [c \in {"F", "U", "L", "P", "S", "E", "R", "T", "O", "N", "Y"} |->
                     CASE c = "F" -> "f" [] c = "U" -> "u" [] c = "L" -> "l"
                       [] c = "P" -> "p" [] c = "S" -> "s" [] c = "E" -> "e"
                       [] c = "R" -> "r" [] c = "T" -> "t" [] c = "O" -> "o"
                       [] c = "N" -> "n" [] c = "Y" -> "y"]
    IN [i \in 1..Len(str) |-> IF str[i] \in DOMAIN lower THEN lower[str[i]] ELSE str[i]]

\* Load: env holds what os.Getenv returns for CLOUDFLARE_API_TOKEN and
\* STRATEGY ("" for a variable that is not set), STRATEGY as its characters.
Load(env) ==
    IF env.CLOUDFLARE_API_TOKEN = "" THEN [cfg |-> None, err |-> TRUE]
    ELSE LET strategyStr == ToLower(env.STRATEGY)
         IN IF strategyStr = <<>> THEN [cfg |-> Some([Strategy |-> StrategyFull]), err |-> FALSE]
            ELSE IF strategyStr = <<"f", "u", "l", "l">>
                 THEN [cfg |-> Some([Strategy |-> StrategyFull]), err |-> FALSE]
            ELSE IF strategyStr = <<"u", "p", "s", "e", "r", "t", "-", "o", "n", "l", "y">>
                 THEN [cfg |-> Some([Strategy |-> StrategyUpsertOnly]), err |-> FALSE]
            ELSE [cfg |-> None, err |-> TRUE]

\* Faulty variant of ShouldDelete: the strategy is not looked at.
ShouldDeleteAlways(c) == TRUE

ShouldDelete(c) == c.Strategy = StrategyFull

-----------------------------------------------------------------------------
(* pkg/controller: the controller's goroutines.                            *)
(*                                                                         *)
(* "informer" runs the event handlers (AddFunc, UpdateFunc, DeleteFunc),   *)
(* one notification at a time; "sweep" runs runReconciliationJob.  A       *)
(* goroutine takes one step per access to shared state: resolving the      *)
(* addresses, reading trackedRoutes, one adapter call, writing             *)
(* trackedRoutes.  What lies between two such accesses is local and is     *)
(* part of the step.                                                       *)

Threads == {"informer", "sweep"}

NoRoute ==
    [namespace |-> "", name |-> "", annotations |-> EmptyMap,
     hostnames |-> <<>>, parentRefs |-> <<>>]

NoFrame ==
    [kind |-> "none", route |-> NoRoute, isReconciliationUpdate |-> FALSE,
     namespace |-> "", name |-> "", contentMode |-> "", zoneName |-> <<>>,
     recordName |-> <<>>, recordType |-> "", ttl |-> 0, proxied |-> FALSE,
     ips |-> <<>>, gatewayNamespace |-> "", gatewayName |-> "",
     types |-> <<>>, i |-> 0, createdIPv4 |-> FALSE, createdIPv6 |-> FALSE,
     outcome |-> ""]

\* No watch: the controller gets its notifications from an informer.
NoWatcher == [loop |-> "none", chan |-> "none", stopped |-> FALSE, cancelled |-> FALSE,
              sleep |-> 0, opened |-> 0]

NoSweep == [cacheRoutes |-> EmptyMap, todo |-> {}]

\* Run has started the reconciliation job and the informer and waits for the
\* context to be cancelled; the ticker's channel is empty.
NoRun == [cancelled |-> FALSE, tick |-> FALSE, job |-> "running", stopCh |-> "open",
          main |-> "blocked", routesMutex |-> [writer |-> "", readers |-> {}]]

\* The zones of the provider account.
Zones == {<<"example", "com">>}

\* GetZoneIDByName: fails when the provider does not answer or has no such zone.
GetZoneIDByName(zoneName, up) == up /\ zoneName \in Zones

\* Faulty variant of Extract: a route without content-mode is taken as ddns.
ExtractDefaultDDNS(route) ==
    LET routeflareAnns == extractRouteflareAnnotations(route.annotations)
        recordName == getRecordNameFromHTTPRoute(route)
        zoneName == extractZoneFromRecordName(recordName.name)
        recordType == IF MapGet(routeflareAnns, "type", "") = "" THEN "A"
                      ELSE routeflareAnns["type"]
        ttl == ParseTTL(MapGet(routeflareAnns, "ttl", <<>>))
        proxied == ParseProxied(MapGet(routeflareAnns, "proxied", ""))
        stop == IF DOMAIN routeflareAnns = {} THEN "ignored"
                ELSE IF recordName.err THEN "no-hostname"
                ELSE IF zoneName.err THEN "bad-zone"
                ELSE ""
    IN [stop |-> stop,
        contentMode |-> IF MapGet(routeflareAnns, "content-mode", "") = "" THEN "ddns"
                        ELSE routeflareAnns["content-mode"],
        recordName |-> recordName.name, zoneName |-> zoneName.zone,
        recordType |-> recordType,
        ttl |-> IF ttl.err THEN 1 ELSE ttl.ttl,
        proxied |-> IF proxied.err THEN FALSE ELSE proxied.proxied]

\* processHTTPRoute, lines 94-152: what the route's annotations and hostnames
\* ask for; stop # "" when the route is skipped before its content mode is
\* looked at.
Extract(route) ==
    LET routeflareAnns == extractRouteflareAnnotations(route.annotations)
        recordName == getRecordNameFromHTTPRoute(route)
        zoneName == extractZoneFromRecordName(recordName.name)
        recordType == IF MapGet(routeflareAnns, "type", "") = "" THEN "A"
                      ELSE routeflareAnns["type"]
        ttl == ParseTTL(MapGet(routeflareAnns, "ttl", <<>>))
        proxied == ParseProxied(MapGet(routeflareAnns, "proxied", ""))
        stop == IF DOMAIN routeflareAnns = {} THEN "ignored"
                ELSE IF MapGet(routeflareAnns, "content-mode", "") = "" THEN "ignored"
                ELSE IF recordName.err THEN "no-hostname"
                ELSE IF zoneName.err THEN "bad-zone"
                ELSE ""
    IN [stop |-> stop,
        contentMode |-> MapGet(routeflareAnns, "content-mode", ""),
        recordName |-> recordName.name, zoneName |-> zoneName.zone,
        recordType |-> recordType,
        ttl |-> IF ttl.err THEN 1 ELSE ttl.ttl,
        proxied |-> IF proxied.err THEN FALSE ELSE proxied.proxied]

\* processGatewayAddressMode, lines 167-210: the first parent's Gateway and
\* its addresses.  getOk: whether the cluster API answers the Get.
ResolveGateway(route, recordType, getOk) ==
    IF Len(route.parentRefs) = 0
    THEN [ips |-> <<>>, err |-> "no-parent", ns |-> "", gw |-> ""]
    ELSE LET parentRef == route.parentRefs[1]
             gatewayNamespace == IF parentRef.namespace = None THEN route.namespace
                                 ELSE parentRef.namespace[1]
         IN IF parentRef.name = None
            THEN [ips |-> <<>>, err |-> "no-parent", ns |-> "", gw |-> ""]
            ELSE LET gatewayName == parentRef.name[1]
                     gwKey == <<gatewayNamespace, gatewayName>>
                 IN IF ~getOk \/ gwKey \notin DOMAIN gateways
                    THEN [ips |-> <<>>, err |-> "get-failed",
                          ns |-> gatewayNamespace, gw |-> gatewayName]
                    ELSE LET r == GetGatewayAddresses(gateways[gwKey], recordType)
                         IN [ips |-> r.ips, err |-> IF r.err THEN "no-address" ELSE "",
                             ns |-> gatewayNamespace, gw |-> gatewayName]

\* Faulty variant of Finish: a dispatch that did not apply its route ends the
\* job's tick as well.
FinishAbort(t, f, todo) ==
    /\ frame' = [frame EXCEPT ![t] = f]
    /\ pc' = [pc EXCEPT ![t] = "done"]
    /\ sweep' = IF t = "sweep"
                THEN [sweep EXCEPT !.todo = IF f.outcome \in {"applied", "unchanged", "dropped"}
                                            THEN todo ELSE {}]
                ELSE sweep

\* A dispatch ends: the handler is about to return.
Finish(t, f, todo) ==
    /\ frame' = [frame EXCEPT ![t] = f]
    /\ pc' = [pc EXCEPT ![t] = "done"]
    /\ sweep' = IF t = "sweep" THEN [sweep EXCEPT !.todo = todo] ELSE sweep

Continue(t, f, label, todo) ==
    /\ frame' = [frame EXCEPT ![t] = f]
    /\ pc' = [pc EXCEPT ![t] = label]
    /\ sweep' = IF t = "sweep" THEN [sweep EXCEPT !.todo = todo] ELSE sweep

\* processHTTPRoute up to and including the resolution of the addresses.
BeginObserve(t, route, isReconciliationUpdate, todo) ==
    LET x == Extract(route)
        f == [NoFrame EXCEPT !.kind = "observe", !.route = route,
                             !.isReconciliationUpdate = isReconciliationUpdate,
                             !.namespace = route.namespace, !.name = route.name]
        g == [f EXCEPT !.contentMode = x.contentMode, !.zoneName = x.zoneName,
                       !.recordName = x.recordName, !.recordType = x.recordType,
                       !.ttl = x.ttl, !.proxied = x.proxied]
    IN /\ log' = [log EXCEPT ![t] = <<>>]
       /\ IF x.stop # "" THEN Finish(t, [f EXCEPT !.outcome = x.stop], todo)
          ELSE IF x.contentMode = "gateway-address"
               THEN \E getOk \in BOOLEAN :
                        LET r == ResolveGateway(route, x.recordType, getOk)
                        IN IF r.err # "" THEN Finish(t, [g EXCEPT !.outcome = r.err], todo)
                           ELSE Continue(t, [g EXCEPT !.ips = r.ips,
                                                      !.gatewayNamespace = r.ns,
                                                      !.gatewayName = r.gw], "check", todo)
          ELSE IF x.contentMode = "ddns"
               THEN LET r == GetPublicIPsByType(publicIP, x.recordType)
                    IN IF r.err THEN Finish(t, [g EXCEPT !.outcome = "no-address"], todo)
                       ELSE Continue(t, [g EXCEPT !.ips = r.ips], "check", todo)
          ELSE Finish(t, [g EXCEPT !.outcome = "unknown-mode"], todo)

\* createOrUpdateRecords: the index of the next address for which UpsertRecord
\* is called, looking from index from on; 0 when the loop is over.
NextUpsert(recordType, ips, from, createdIPv4, createdIPv6) ==
    LET calls == CASE recordType = "A/AAAA" ->
                        IF createdIPv4 /\ createdIPv6 THEN {}
                        ELSE {j \in from..Len(ips) : isIPv4(ips[j]) \/ isIPv6(ips[j])}
                   [] recordType = "AAAA" ->
                        IF from > 1 THEN {} ELSE {j \in 1..Len(ips) : isIPv6(ips[j])}
                   [] recordType = "A" ->
                        IF from > 1 THEN {} ELSE {j \in 1..Len(ips) : isIPv4(ips[j])}
                   [] OTHER -> {}
    IN IF calls = {} THEN 0 ELSE CHOOSE j \in calls : \A k \in calls : j <= k

\* Faulty variant of RecordTypeForIP: under A/AAAA every record is an A record.
RecordTypeForIPOnlyA(recordType, ip) ==
    IF recordType = "A/AAAA" THEN "A" ELSE recordType

\* The type of the record upserted for an address.
RecordTypeForIP(recordType, ip) ==
    IF recordType = "A/AAAA" THEN (IF isIPv4(ip) THEN "A" ELSE "AAAA")
    ELSE recordType

TrackedOf(f) ==
    [contentMode |-> f.contentMode, namespace |-> f.namespace, name |-> f.name,
     zoneName |-> f.zoneName, recordName |-> f.recordName,
     recordType |-> f.recordType, ttl |-> f.ttl, proxied |-> f.proxied,
     lastIPs |-> f.ips, gatewayNamespace |-> f.gatewayNamespace,
     gatewayName |-> f.gatewayName]

-----------------------------------------------------------------------------
(* The cluster and the world outside the controller.                       *)

\* A route is created or changed: the informer updates its store and owes
\* the handlers an add or update notification.
ClusterApply(keys, pool) ==
    /\ Len(queue) < MaxQueue
    /\ \E key \in keys, spec \in pool :
        LET route == [spec EXCEPT !.namespace = key[1], !.name = key[2]]
        IN /\ (key \in DOMAIN cache => cache[key] # route)
           /\ cache' = MapPut(cache, key, route)
           /\ queue' = Append(queue, [type |-> IF key \in DOMAIN cache THEN "update" ELSE "add",
                                      obj |-> route])
    /\ UNCHANGED <<run, watcher, cfg, gateways, publicIP, records, trackedRoutes, pc, frame,
                   sweep, log, adapter>>

\* A route is deleted: the notification carries its last known state.
ClusterDelete(keys) ==
    /\ Len(queue) < MaxQueue
    /\ \E key \in keys \cap DOMAIN cache :
        /\ cache' = MapDel(cache, key)
        /\ queue' = Append(queue, [type |-> "delete", obj |-> cache[key]])
    /\ UNCHANGED <<run, watcher, cfg, gateways, publicIP, records, trackedRoutes, pc, frame,
                   sweep, log, adapter>>

\* The address the cluster egresses from changes; the address families it has
\* stay.
PublicIPChange(answers) ==
    /\ \E a \in answers :
        /\ a # publicIP
        /\ (a.v4 = None) = (publicIP.v4 = None)
        /\ (a.v6 = None) = (publicIP.v6 = None)
        /\ publicIP' = a
    /\ UNCHANGED <<run, watcher, cfg, cache, queue, gateways, records, trackedRoutes, pc, frame,
                   sweep, log, adapter>>

-----------------------------------------------------------------------------
(* pkg/controller/httproute.go: the steps of the goroutines.               *)

\* startHTTPRouteInformer, lines 22-53: the next notification goes to its
\* handler.  AddFunc and UpdateFunc run processHTTPRoute(route, false);
\* DeleteFunc runs processHTTPRouteDeletion, here up to the zone lookup
\* (lines 390-436).
InformerDispatch ==
    /\ pc["informer"] = "idle"
    /\ queue # <<>>
    /\ queue' = Tail(queue)
    /\ LET event == Head(queue) IN
       IF event.type # "delete" THEN BeginObserve("informer", event.obj, FALSE, {})
       ELSE LET route == event.obj
                routeflareAnns == extractRouteflareAnnotations(route.annotations)
                recordName == getRecordNameFromHTTPRoute(route)
                zoneName == extractZoneFromRecordName(recordName.name)
                recordType == IF MapGet(routeflareAnns, "type", "") = "" THEN "A"
                              ELSE routeflareAnns["type"]
                f == [NoFrame EXCEPT !.kind = "delete", !.route = route,
                                     !.namespace = route.namespace, !.name = route.name]
                g == [f EXCEPT !.recordName = recordName.name, !.zoneName = zoneName.zone,
                               !.recordType = recordType,
                               !.types = IF recordType = "A/AAAA" THEN <<"A", "AAAA">>
                                         ELSE <<recordType>>,
                               !.i = 1]
            IN IF ~ShouldDelete(cfg)
               THEN /\ Finish("informer", [f EXCEPT !.outcome = "delete-disabled"], {})
                    /\ log' = [log EXCEPT !["informer"] = <<>>]
               ELSE IF DOMAIN routeflareAnns = {}
               THEN /\ Finish("informer", [f EXCEPT !.outcome = "ignored"], {})
                    /\ log' = [log EXCEPT !["informer"] = <<>>]
               ELSE IF recordName.err
               THEN /\ Finish("informer", [f EXCEPT !.outcome = "no-hostname"], {})
                    /\ log' = [log EXCEPT !["informer"] = <<>>]
               ELSE IF zoneName.err
               THEN /\ Finish("informer", [f EXCEPT !.outcome = "bad-zone"], {})
                    /\ log' = [log EXCEPT !["informer"] = <<>>]
               ELSE \E up \in BOOLEAN :
                        LET ok == GetZoneIDByName(zoneName.zone, up)
                        IN /\ log' = [log EXCEPT !["informer"] =
                                        <<[call |-> "GetZoneIDByName", zone |-> zoneName.zone,
                                           api |-> <<"ZoneIDByName">>,
                                           err |-> IF ok THEN "" ELSE "zone"]>>]
                           /\ IF ok THEN Continue("informer", g, "delete", {})
                              ELSE Finish("informer", [g EXCEPT !.outcome = "zone-failed"], {})
    /\ UNCHANGED <<run, watcher, cfg, cache, gateways, publicIP, records, trackedRoutes, adapter>>

\* runReconciliationJob, lines 483-506: the job waits in its select with the
\* context not cancelled, and the ticker fires; the job lists the informer's
\* store and copies the tracked routes.
Tick ==
    /\ pc["sweep"] = "idle"
    /\ run.job = "running" /\ ~run.cancelled
    /\ DOMAIN trackedRoutes # {}
    /\ sweep' = [cacheRoutes |-> cache,
                 todo |-> {[key |-> RouteKey(trackedRoutes[k].namespace, trackedRoutes[k].name),
                            contentMode |-> trackedRoutes[k].contentMode] :
                           k \in DOMAIN trackedRoutes}]
    /\ pc' = [pc EXCEPT !["sweep"] = "sweeping"]
    /\ UNCHANGED <<run, watcher, cfg, cache, queue, gateways, publicIP, records, trackedRoutes,
                   frame, log, adapter>>

\* Faulty variant of SweepNext: a tracked route that is gone from the
\* informer's store stays tracked.
SweepNextKeep ==
    /\ pc["sweep"] = "sweeping"
    /\ \E tr \in sweep.todo :
        LET todo == sweep.todo \ {tr} IN
        IF tr.key \notin DOMAIN sweep.cacheRoutes
        THEN /\ UNCHANGED trackedRoutes
             /\ log' = [log EXCEPT !["sweep"] = <<>>]
             /\ Finish("sweep", [NoFrame EXCEPT !.kind = "drop", !.namespace = tr.key[1],
                                                !.name = tr.key[2], !.outcome = "dropped"],
                       todo)
        ELSE /\ IF tr.contentMode \in {"ddns", "gateway-address"}
                THEN BeginObserve("sweep", sweep.cacheRoutes[tr.key], TRUE, todo)
                ELSE /\ log' = [log EXCEPT !["sweep"] = <<>>]
                     /\ Finish("sweep", [NoFrame EXCEPT !.kind = "observe",
                                                        !.outcome = "unknown-mode"], todo)
             /\ UNCHANGED trackedRoutes
    /\ UNCHANGED <<run, watcher, cfg, cache, queue, gateways, publicIP, records, adapter>>

\* runReconciliationJob, lines 508-534: the next tracked route of the copy, in
\* the order Go's map iteration happened to give.
SweepNext ==
    /\ pc["sweep"] = "sweeping"
    /\ \E tr \in sweep.todo :
        LET todo == sweep.todo \ {tr} IN
        IF tr.key \notin DOMAIN sweep.cacheRoutes
        THEN /\ trackedRoutes' = MapDel(trackedRoutes, tr.key)
             /\ log' = [log EXCEPT !["sweep"] = <<>>]
             /\ Finish("sweep", [NoFrame EXCEPT !.kind = "drop", !.namespace = tr.key[1],
                                                !.name = tr.key[2], !.outcome = "dropped"],
                       todo)
        ELSE /\ IF tr.contentMode \in {"ddns", "gateway-address"}
                THEN BeginObserve("sweep", sweep.cacheRoutes[tr.key], TRUE, todo)
                ELSE /\ log' = [log EXCEPT !["sweep"] = <<>>]
                     /\ Finish("sweep", [NoFrame EXCEPT !.kind = "observe",
                                                        !.outcome = "unknown-mode"], todo)
             /\ UNCHANGED trackedRoutes
    /\ UNCHANGED <<run, watcher, cfg, cache, queue, gateways, publicIP, records, adapter>>

\* Faulty variant of Check: the equal-address test of DDNS mode is made on
\* notifications as well.
CheckSkipOnEvent(t) ==
    /\ pc[t] = "check"
    /\ LET f == frame[t]
           routeKey == RouteKey(f.namespace, f.name)
           todo == sweep.todo
       IN IF /\ f.contentMode = "ddns"
             /\ routeKey \in DOMAIN trackedRoutes
             /\ ipsEqual(trackedRoutes[routeKey].lastIPs, f.ips)
          THEN /\ Finish(t, [f EXCEPT !.outcome = "unchanged"], todo)
               /\ UNCHANGED log
          ELSE \E up \in BOOLEAN :
                LET ok == GetZoneIDByName(f.zoneName, up)
                    first == NextUpsert(f.recordType, f.ips, 1, FALSE, FALSE)
                IN /\ log' = [log EXCEPT ![t] =
                                Append(@, [call |-> "GetZoneIDByName", zone |-> f.zoneName,
                                           api |-> <<"ZoneIDByName">>,
                                           err |-> IF ok THEN "" ELSE "zone"])]
                   /\ IF ~ok THEN Finish(t, [f EXCEPT !.outcome = "zone-failed"], todo)
                      ELSE IF Len(f.ips) = 0 /\ f.contentMode = "gateway-address"
                           THEN Finish(t, [f EXCEPT !.outcome = "records-failed"], todo)
                      ELSE IF first = 0 THEN Continue(t, f, "store", todo)
                      ELSE Continue(t, [f EXCEPT !.i = first], "upsert", todo)
    /\ UNCHANGED <<run, watcher, cfg, cache, queue, gateways, publicIP, records, trackedRoutes, adapter>>

\* Faulty variant of Check: the equal-address test of a reconciliation is made
\* in gateway-address mode as well.
CheckSkipEqual(t) ==
    /\ pc[t] = "check"
    /\ LET f == frame[t]
           routeKey == RouteKey(f.namespace, f.name)
           todo == sweep.todo
       IN IF /\ f.isReconciliationUpdate
             /\ routeKey \in DOMAIN trackedRoutes
             /\ ipsEqual(trackedRoutes[routeKey].lastIPs, f.ips)
          THEN /\ Finish(t, [f EXCEPT !.outcome = "unchanged"], todo)
               /\ UNCHANGED log
          ELSE \E up \in BOOLEAN :
                LET ok == GetZoneIDByName(f.zoneName, up)
                    first == NextUpsert(f.recordType, f.ips, 1, FALSE, FALSE)
                IN /\ log' = [log EXCEPT ![t] =
                                Append(@, [call |-> "GetZoneIDByName", zone |-> f.zoneName,
                                           api |-> <<"ZoneIDByName">>,
                                           err |-> IF ok THEN "" ELSE "zone"])]
                   /\ IF ~ok THEN Finish(t, [f EXCEPT !.outcome = "zone-failed"], todo)
                      ELSE IF Len(f.ips) = 0 /\ f.contentMode = "gateway-address"
                           THEN Finish(t, [f EXCEPT !.outcome = "records-failed"], todo)
                      ELSE IF first = 0 THEN Continue(t, f, "store", todo)
                      ELSE Continue(t, [f EXCEPT !.i = first], "upsert", todo)
    /\ UNCHANGED <<run, watcher, cfg, cache, queue, gateways, publicIP, records, trackedRoutes, adapter>>

\* processDDNSMode, lines 259-276, and processGatewayAddressMode, lines
\* 214-221: the equal-address test of a DDNS reconciliation, then the zone
\* lookup, then the entry into createOrUpdateRecords (lines 301-303).
Check(t) ==
    /\ pc[t] = "check"
    /\ LET f == frame[t]
           routeKey == RouteKey(f.namespace, f.name)
           todo == sweep.todo
       IN IF /\ f.contentMode = "ddns"
             /\ f.isReconciliationUpdate
             /\ routeKey \in DOMAIN trackedRoutes
             /\ ipsEqual(trackedRoutes[routeKey].lastIPs, f.ips)
          THEN /\ Finish(t, [f EXCEPT !.outcome = "unchanged"], todo)
               /\ UNCHANGED log
          ELSE \E up \in BOOLEAN :
                LET ok == GetZoneIDByName(f.zoneName, up)
                    first == NextUpsert(f.recordType, f.ips, 1, FALSE, FALSE)
                IN /\ log' = [log EXCEPT ![t] =
                                Append(@, [call |-> "GetZoneIDByName", zone |-> f.zoneName,
                                           api |-> <<"ZoneIDByName">>,
                                           err |-> IF ok THEN "" ELSE "zone"])]
                   /\ IF ~ok THEN Finish(t, [f EXCEPT !.outcome = "zone-failed"], todo)
                      ELSE IF Len(f.ips) = 0 /\ f.contentMode = "gateway-address"
                           THEN Finish(t, [f EXCEPT !.outcome = "records-failed"], todo)
                      ELSE IF first = 0 THEN Continue(t, f, "store", todo)
                      ELSE Continue(t, [f EXCEPT !.i = first], "upsert", todo)
    /\ UNCHANGED <<run, watcher, cfg, cache, queue, gateways, publicIP, records, trackedRoutes, adapter>>

\* createOrUpdateRecords, lines 305-383: one UpsertRecord call and what
\* follows it up to the next call or the end of the loop.
Upsert(t) ==
    /\ pc[t] = "upsert"
    /\ LET f == frame[t]
           ip == f.ips[f.i]
           recordTypeForIP == RecordTypeForIP(f.recordType, ip)
           record == [ID |-> <<>>, Type |-> recordTypeForIP, Name |-> f.recordName,
                      Content |-> ip, TTL |-> f.ttl, Proxied |-> f.proxied]
       IN \E net \in Nets :
            LET r == UpsertRecordUnowned(records, record, net)
                createdIPv4 == f.createdIPv4 \/ (r.err = "" /\ recordTypeForIP = "A")
                createdIPv6 == f.createdIPv6 \/ (r.err = "" /\ recordTypeForIP = "AAAA")
                next == NextUpsert(f.recordType, f.ips, f.i + 1, createdIPv4, createdIPv6)
                g == [f EXCEPT !.createdIPv4 = createdIPv4, !.createdIPv6 = createdIPv6,
                               !.i = next]
            IN /\ records' = r.records
               /\ log' = [log EXCEPT ![t] =
                            Append(@, [call |-> "UpsertRecord", record |-> record,
                                       api |-> r.api, err |-> r.err])]
               /\ Continue(t, g, IF next = 0 THEN "store" ELSE "upsert", sweep.todo)
    /\ UNCHANGED <<run, watcher, cfg, cache, queue, gateways, publicIP, trackedRoutes, adapter>>

\* Faulty variant of Store: the route is recorded only when the last
\* UpsertRecord call of the dispatch succeeded.
StoreIfUpserted(t) ==
    /\ pc[t] = "store"
    /\ LET f == frame[t]
           ok == log[t] # <<>> /\ log[t][Len(log[t])].err = ""
       IN /\ trackedRoutes' = IF ok THEN MapPut(trackedRoutes, RouteKey(f.namespace, f.name),
                                                TrackedOf(f))
                              ELSE trackedRoutes
          /\ Finish(t, [f EXCEPT !.outcome = "applied"], sweep.todo)
    /\ UNCHANGED <<run, watcher, cfg, cache, queue, gateways, publicIP, records, log, adapter>>

\* processGatewayAddressMode, lines 230-245, and processDDNSMode, lines
\* 284-297: the route is recorded as tracked.
Store(t) ==
    /\ pc[t] = "store"
    /\ LET f == frame[t]
       IN /\ trackedRoutes' = MapPut(trackedRoutes, RouteKey(f.namespace, f.name), TrackedOf(f))
          /\ Finish(t, [f EXCEPT !.outcome = "applied"], sweep.todo)
    /\ UNCHANGED <<run, watcher, cfg, cache, queue, gateways, publicIP, records, log, adapter>>

\* Faulty variant of Delete: a FindRecord failure ends the handler for every
\* record type.
DeleteStopOnError(t) ==
    /\ pc[t] = "delete"
    /\ LET f == frame[t]
           rt == f.types[f.i]
           last == f.i = Len(f.types)
           g == [f EXCEPT !.i = f.i + 1]
       IN \E net \in Nets :
            LET found == FindRecordUnowned(records, f.recordName, rt, net)
                find == [call |-> "FindRecord", name |-> f.recordName, type |-> rt,
                         api |-> <<"ListDNSRecords">>, err |-> found.err]
            IN IF found.err # ""
               THEN /\ log' = [log EXCEPT ![t] = Append(@, find)]
                    /\ UNCHANGED records
                    /\ Finish(t, [f EXCEPT !.outcome = "find-failed"], {})
               ELSE IF found.rec = None
               THEN /\ log' = [log EXCEPT ![t] = Append(@, find)]
                    /\ UNCHANGED records
                    /\ Continue(t, g, IF last THEN "untrack" ELSE "delete", {})
               ELSE LET r == DeleteRecordByID(records, found.rec[1].ID, net)
                    IN /\ records' = r.records
                       /\ log' = [log EXCEPT ![t] =
                                    Append(Append(@, find),
                                           [call |-> "DeleteRecord", id |-> found.rec[1].ID,
                                            api |-> r.api, err |-> r.err])]
                       /\ Continue(t, g, IF last THEN "untrack" ELSE "delete", {})
    /\ UNCHANGED <<run, watcher, cfg, cache, queue, gateways, publicIP, trackedRoutes, adapter>>

\* Faulty variant of Delete: the handler is through with the provider after
\* the first record type.
DeleteFirstOnly(t) ==
    /\ pc[t] = "delete"
    /\ LET f == frame[t]
           rt == f.types[f.i]
           g == [f EXCEPT !.i = f.i + 1]
       IN \E net \in Nets :
            LET found == FindRecordUnowned(records, f.recordName, rt, net)
                find == [call |-> "FindRecord", name |-> f.recordName, type |-> rt,
                         api |-> <<"ListDNSRecords">>, err |-> found.err]
            IN IF found.err # "" \/ found.rec = None
               THEN /\ log' = [log EXCEPT ![t] = Append(@, find)]
                    /\ UNCHANGED records
                    /\ Continue(t, g, "untrack", {})
               ELSE LET r == DeleteRecordByID(records, found.rec[1].ID, net)
                    IN /\ records' = r.records
                       /\ log' = [log EXCEPT ![t] =
                                    Append(Append(@, find),
                                           [call |-> "DeleteRecord", id |-> found.rec[1].ID,
                                            api |-> r.api, err |-> r.err])]
                       /\ Continue(t, g, "untrack", {})
    /\ UNCHANGED <<run, watcher, cfg, cache, queue, gateways, publicIP, trackedRoutes, adapter>>

\* processHTTPRouteDeletion, lines 439-468: FindRecord for one record type
\* and, when a record is found, DeleteRecord with its id.
Delete(t) ==
    /\ pc[t] = "delete"
    /\ LET f == frame[t]
           rt == f.types[f.i]
           last == f.i = Len(f.types)
           g == [f EXCEPT !.i = f.i + 1]
       IN \E net \in Nets :
            LET found == FindRecordUnowned(records, f.recordName, rt, net)
                find == [call |-> "FindRecord", name |-> f.recordName, type |-> rt,
                         api |-> <<"ListDNSRecords">>, err |-> found.err]
            IN IF found.err # ""
               THEN /\ log' = [log EXCEPT ![t] = Append(@, find)]
                    /\ UNCHANGED records
                    /\ IF f.recordType = "A/AAAA"
                       THEN Continue(t, g, IF last THEN "untrack" ELSE "delete", {})
                       ELSE Finish(t, [f EXCEPT !.outcome = "find-failed"], {})
               ELSE IF found.rec = None
               THEN /\ log' = [log EXCEPT ![t] = Append(@, find)]
                    /\ UNCHANGED records
                    /\ Continue(t, g, IF last THEN "untrack" ELSE "delete", {})
               ELSE LET r == DeleteRecordByID(records, found.rec[1].ID, net)
                    IN /\ records' = r.records
                       /\ log' = [log EXCEPT ![t] =
                                    Append(Append(@, find),
                                           [call |-> "DeleteRecord", id |-> found.rec[1].ID,
                                            api |-> r.api, err |-> r.err])]
                       /\ Continue(t, g, IF last THEN "untrack" ELSE "delete", {})
    /\ UNCHANGED <<run, watcher, cfg, cache, queue, gateways, publicIP, trackedRoutes, adapter>>

\* The handler returns: its locals are gone, and the goroutine is back in its
\* loop (the informer waiting for a notification, the job in its for loop or,
\* after the last tracked route, waiting for the next tick).
Return(t) ==
    /\ pc[t] = "done"
    /\ pc' = [pc EXCEPT ![t] = IF t = "sweep" /\ sweep.todo # {} THEN "sweeping" ELSE "idle"]
    /\ frame' = [frame EXCEPT ![t] = NoFrame]
    /\ log' = [log EXCEPT ![t] = <<>>]
    /\ sweep' = IF t = "sweep" /\ sweep.todo = {} THEN NoSweep ELSE sweep
    /\ UNCHANGED <<run, watcher, cfg, cache, queue, gateways, publicIP, records, trackedRoutes, adapter>>

\* processHTTPRouteDeletion, lines 470-474.
Untrack(t) ==
    /\ pc[t] = "untrack"
    /\ LET f == frame[t]
       IN /\ trackedRoutes' = MapDel(trackedRoutes, RouteKey(f.namespace, f.name))
          /\ Finish(t, [f EXCEPT !.outcome = "untracked"], {})
    /\ UNCHANGED <<run, watcher, cfg, cache, queue, gateways, publicIP, records, log, adapter>>

-----------------------------------------------------------------------------
(* The controller in its cluster.                                          *)

Host == <<"api", "example", "com">>

Route(annotations, hostnames, parentRefs) ==
    [namespace |-> "", name |-> "", annotations |-> annotations,
     hostnames |-> hostnames, parentRefs |-> parentRefs]

Anns(mode, type) ==
    (Ann("content-mode") :> mode) @@ (IF type = "" THEN EmptyMap ELSE (Ann("type") :> type))

ParentGateway == <<[name |-> Some("gw"), namespace |-> None]>>

DDNSRoute == Route(Anns("ddns", ""), <<Host>>, <<>>)

DDNSRoutes == {DDNSRoute, Route(Anns("ddns", "AAAA"), <<Host>>, <<>>)}

GatewayRoute == Route(Anns("gateway-address", "A"), <<Host>>, ParentGateway)

\* The same with a parent Gateway of another namespace, a second parent, and
\* a second hostname.
GatewayRoutes ==
    { GatewayRoute,
      Route(Anns("gateway-address", "A"), <<Host, <<"www", "example", "org">> >>,
            <<[name |-> Some("gw"), namespace |-> Some("infra")],
              [name |-> Some("gw"), namespace |-> None]>>) }

\* Routes without a content mode: no annotation of this controller at all (one
\* of another controller under the same setting name), only optional ones, an
\* empty content-mode, and one that has neither hostnames nor a parent.
UnmanagedRoutes ==
    { Route((<<"example.com/", "content-mode">> :> "ddns"), <<Host>>, ParentGateway),
      Route((Ann("type") :> "A/AAAA") @@ (Ann("ttl") :> <<"3", "0", "0">>), <<Host>>, ParentGateway),
      Route(Anns("", "AAAA"), <<Host>>, ParentGateway),
      Route((Ann("proxied") :> "true"), <<>>, <<>>) }

RouteKeys == {<<"web", "app1">>}

\* The answers of the IPv4 and the IPv6 lookup service.
Answers ==
    { [v4 |-> Some("203.0.113.5"), v6 |-> None],
      [v4 |-> Some("203.0.113.9"), v6 |-> None],
      [v4 |-> None, v6 |-> Some("2001:db8::5")],
      [v4 |-> None, v6 |-> Some("2001:db8::9")] }

\* What a Gateway's status.addresses may list.
AddressLists ==
    { <<"198.51.100.7">>,
      <<"lb.example.net", "2001:db8::5", "203.0.113.9", "198.51.100.7">>,
      <<"2001:db8::9">> }

GatewayPool ==
    { (<<"web", "gw">> :> [addresses |-> Some(a)])
        @@ (<<"infra", "gw">> :> [addresses |-> Some(b)]) :
      a \in AddressLists, b \in AddressLists }

\* The controller after NewController, in a cluster that has no route yet.
Start ==
    /\ cache = EmptyMap
    /\ queue = <<>>
    /\ records = EmptyMap
    /\ trackedRoutes = EmptyMap
    /\ pc = [t \in Threads |-> "idle"]
    /\ frame = [t \in Threads |-> NoFrame]
    /\ sweep = NoSweep
    /\ log = [t \in Threads |-> <<>>]
    /\ adapter = None
    /\ run = NoRun
    /\ watcher = NoWatcher

ControllerStep ==
    \/ InformerDispatch
    \/ Tick
    \/ SweepNext
    \/ \E t \in Threads : Check(t)
    \/ \E t \in Threads : Upsert(t)
    \/ \E t \in Threads : Store(t)
    \/ Delete("informer")
    \/ Untrack("informer")
    \/ \E t \in Threads : Return(t)

(* DDNS routes, with the public address changing.                          *)

Strategies == [Strategy : {StrategyFull, StrategyUpsertOnly}]

Init ==
    /\ Start
    /\ cfg \in Strategies
    /\ gateways = EmptyMap
    /\ publicIP \in Answers

Next ==
    \/ ClusterApply(RouteKeys, DDNSRoutes)
    \/ ClusterDelete(RouteKeys)
    \/ PublicIPChange(Answers)
    \/ ControllerStep

Spec == Init /\ [][Next]_vars

(* Gateway-address routes.                                                 *)

InitGateway ==
    /\ Start
    /\ cfg = [Strategy |-> StrategyFull]
    /\ gateways \in GatewayPool
    /\ publicIP = [v4 |-> None, v6 |-> None]

NextGateway ==
    \/ ClusterApply(RouteKeys, GatewayRoutes)
    \/ ClusterDelete(RouteKeys)
    \/ ControllerStep

SpecGateway == InitGateway /\ [][NextGateway]_vars

(* Routes that lose and regain their content mode.                         *)

InitUnmanaged ==
    /\ Start
    /\ cfg \in Strategies
    /\ gateways = EmptyMap
    /\ publicIP = [v4 |-> Some("203.0.113.5"), v6 |-> None]

NextUnmanaged ==
    \/ ClusterApply(RouteKeys, UnmanagedRoutes)
    \/ ClusterApply(RouteKeys, {DDNSRoute})
    \/ ClusterDelete(RouteKeys)
    \/ ControllerStep

SpecUnmanaged == InitUnmanaged /\ [][NextUnmanaged]_vars

-----------------------------------------------------------------------------
(* The ownership-checking adapter (unnamed/part_000) called directly, on a  *)
(* zone that other systems write to as well.                               *)

OwnerID == "routeflare"

\* The records a caller asks the adapter for: one A record and the three that
\* differ from it in one field, and an AAAA record, each with and without the
\* owner marker.
WantedShapes ==
    LET base == [ID |-> <<>>, Type |-> "A", Name |-> Host, Content |-> "203.0.113.5",
                 TTL |-> 1, Proxied |-> FALSE, Comment |-> ""]
    IN { base, [base EXCEPT !.Content = "203.0.113.9"], [base EXCEPT !.TTL = 300],
         [base EXCEPT !.Proxied = TRUE],
         [base EXCEPT !.Type = "AAAA", !.Content = "2001:db8::5"] }

WantedRecords ==
    { [w EXCEPT !.Comment = owner] : w \in WantedShapes, owner \in {"", OwnerID} }

\* The records that may stand in the zone, whoever wrote them.
ProviderRecords ==
    { [w EXCEPT !.ID = RecordID(w.Name, w.Type), !.Comment = owner] :
        w \in WantedRecords, owner \in {"", OwnerID, "external-dns"} }

\* Somebody else creates or overwrites a record.
ProviderWrite ==
    /\ \E rec \in ProviderRecords :
        /\ MapGet(records, <<rec.Name, rec.Type>>, None) # rec
        /\ records' = MapPut(records, <<rec.Name, rec.Type>>, rec)
    /\ adapter' = None
    /\ UNCHANGED <<run, watcher, cfg, cache, queue, gateways, publicIP, trackedRoutes, pc, frame,
                   sweep, log>>

\* What is remembered of a direct call: the call, the record that stood under
\* its name and type before, and what it returned.
Called(op, record, result) ==
    Some([op |-> op, record |-> record,
          before |-> FindRecord(records, record.Name, record.Type, AllUp).rec,
          err |-> result.err, api |-> result.api])

CallUpsertRecord ==
    /\ \E record \in WantedRecords, net \in Nets :
        LET r == UpsertRecord(records, record, net)
        IN /\ records' = r.records
           /\ adapter' = Called("UpsertRecord", record, r)
    /\ UNCHANGED <<run, watcher, cfg, cache, queue, gateways, publicIP, trackedRoutes, pc, frame,
                   sweep, log>>

CallDeleteRecord ==
    /\ \E record \in WantedRecords, net \in Nets :
        LET r == DeleteRecord(records, record, net)
        IN /\ records' = r.records
           /\ adapter' = Called("DeleteRecord", record, r)
    /\ UNCHANGED <<run, watcher, cfg, cache, queue, gateways, publicIP, trackedRoutes, pc, frame,
                   sweep, log>>

InitAdapter ==
    /\ Start
    /\ cfg = [Strategy |-> StrategyFull]
    /\ gateways = EmptyMap
    /\ publicIP = [v4 |-> None, v6 |-> None]

NextAdapter ==
    \/ ProviderWrite
    \/ CallUpsertRecord
    \/ CallDeleteRecord

SpecAdapter == InitAdapter /\ [][NextAdapter]_vars

\* The provider calls that change the zone.
Mutations == {"CreateDNSRecord", "UpdateDNSRecord", "DeleteDNSRecord"}

Calls(api) == {api[i] : i \in 1..Len(api)}

\* The direct call just made found a record of another owner.
ForeignFound ==
    /\ adapter # None
    /\ adapter[1].before # None
    /\ adapter[1].before[1].Comment # ""
    /\ adapter[1].before[1].Comment # adapter[1].record.Comment

UpsertFoundSameFive ==
    /\ adapter # None
    /\ adapter[1].op = "UpsertRecord"
    /\ adapter[1].err # "find"
    /\ adapter[1].before # None
    /\ LET existing == adapter[1].before[1]
           record == adapter[1].record
       IN /\ existing.Comment = "" \/ existing.Comment = record.Comment
          /\ <<existing.Type, existing.Name, existing.Content, existing.TTL, existing.Proxied>>
               = <<record.Type, record.Name, record.Content, record.TTL, record.Proxied>>

-----------------------------------------------------------------------------
(* The controller's dispatches.                                            *)

KeyOf(t) == RouteKey(frame[t].namespace, frame[t].name)

\* The UpsertRecord calls among the adapter calls of a dispatch.
Upserts(calls) == SelectSeq(calls, LAMBDA c : c.call = "UpsertRecord")

\* A dispatch that has read the tracked routes or called the provider and has
\* not yet written the tracked routes (or given up).
Underway(t) == pc[t] \in {"upsert", "store", "delete", "untrack"}

\* C2: two dispatches for the same route key do not interleave: while one is
\* between its first access to the tracked routes or the provider and its
\* last, no other is.
C2_DispatchesDoNotInterleave ==
    \A t1, t2 \in Threads :
        (t1 # t2 /\ Underway(t1) /\ Underway(t2)) => KeyOf(t1) # KeyOf(t2)

\* C3: when the reconciliation job re-processes a tracked DDNS route and the
\* addresses just detected are the tracked lastIPs, the dispatch ends there:
\* it has made no provider call (no zone lookup either), and the tracked
\* routes and the zone are as they were.
C3_UnchangedAddressNoCalls ==
    [][ LET f == frame["sweep"]
            key == KeyOf("sweep")
        IN (/\ pc["sweep"] = "check"
            /\ pc'["sweep"] # "check"
            /\ f.contentMode = "ddns"
            /\ key \in DOMAIN trackedRoutes
            /\ trackedRoutes[key].lastIPs = f.ips)
           => /\ pc'["sweep"] = "done"
              /\ log["sweep"] = <<>> /\ log'["sweep"] = <<>>
              /\ trackedRoutes' = trackedRoutes
              /\ records' = records ]_vars

C3_Witness ==
    /\ pc["sweep"] = "done"
    /\ frame["sweep"].outcome = "unchanged"
    /\ frame["sweep"].ips = <<"203.0.113.5">>
    /\ KeyOf("sweep") \in DOMAIN trackedRoutes
    /\ trackedRoutes[KeyOf("sweep")].lastIPs = <<"203.0.113.5">>
    /\ log["sweep"] = <<>>

\* C4: when the reconciliation job re-processes a tracked DDNS route of type A
\* or AAAA and the address y just detected is not the tracked one, then,
\* provided the zone lookup answers, the dispatch makes exactly one UpsertRecord
\* call, with content y and the route's name, type, ttl and proxied flag, and
\* then records lastIPs = <<y>>.  (y is what the lookup service of the
\* record type's family answered when the dispatch began.)
C4_ChangedAddressOneUpsert ==
    [][ LET f == frame["sweep"]
            g == frame'["sweep"]
            key == KeyOf("sweep")
            single == f.contentMode = "ddns" /\ f.recordType \in {"A", "AAAA"}
            answer == IF g.recordType = "A" THEN publicIP.v4 ELSE publicIP.v6
        IN /\ (/\ pc["sweep"] = "sweeping" /\ pc'["sweep"] = "check"
               /\ g.contentMode = "ddns" /\ g.recordType \in {"A", "AAAA"})
              => g.ips = answer
           /\ (/\ single /\ pc["sweep"] = "check" /\ pc'["sweep"] # "check"
               /\ key \in DOMAIN trackedRoutes
               /\ trackedRoutes[key].lastIPs # f.ips)
              => \/ pc'["sweep"] = "upsert" /\ Upserts(log'["sweep"]) = <<>>
                 \/ /\ pc'["sweep"] = "done"
                    /\ log'["sweep"] # <<>>
                    /\ log'["sweep"][Len(log'["sweep"])].err = "zone"
           /\ (single /\ pc["sweep"] = "upsert" /\ pc'["sweep"] # "upsert")
              => /\ pc'["sweep"] = "store"
                 /\ Len(f.ips) = 1
                 /\ Len(Upserts(log'["sweep"])) = 1
                 /\ Upserts(log'["sweep"])[1].record
                      = [ID |-> <<>>, Type |-> f.recordType, Name |-> f.recordName,
                         Content |-> f.ips[1], TTL |-> f.ttl, Proxied |-> f.proxied]
           /\ (single /\ pc["sweep"] = "store" /\ pc'["sweep"] # "store")
              => /\ log'["sweep"] = log["sweep"]
                 /\ key \in DOMAIN trackedRoutes'
                 /\ trackedRoutes'[key].lastIPs = f.ips ]_vars

C4_Witness ==
    /\ pc["sweep"] = "store"
    /\ frame["sweep"].contentMode = "ddns"
    /\ frame["sweep"].ips = <<"203.0.113.9">>
    /\ KeyOf("sweep") \in DOMAIN trackedRoutes
    /\ trackedRoutes[KeyOf("sweep")].lastIPs = <<"203.0.113.5">>
    /\ Len(Upserts(log["sweep"])) = 1
    /\ Upserts(log["sweep"])[1].record.Content = "203.0.113.9"
    /\ Upserts(log["sweep"])[1].api = <<"ListDNSRecords", "UpdateDNSRecord">>

\* C5: when the handler of a deletion has run with the strategy upsert-only and
\* is about to return, it has made no DeleteRecord call and the route's key is
\* not among the tracked routes.
C5_DisabledDeletionUntracks ==
    (/\ pc["informer"] = "done"
     /\ frame["informer"].kind = "delete"
     /\ cfg.Strategy = "upsert-only")
    => /\ \A i \in 1..Len(log["informer"]) : log["informer"][i].call # "DeleteRecord"
       /\ KeyOf("informer") \notin DOMAIN trackedRoutes

\* The route has no routeflare/content-mode annotation, or an empty one.
NoContentMode(route) ==
    \A key \in DOMAIN route.annotations :
        key = <<"routeflare/", "content-mode">> => route.annotations[key] = ""

\* C6: a dispatch that observes a route without content-mode, or with an empty
\* one (from an add or update notification, or from the reconciliation job),
\* ends at once: it makes no provider call and leaves the tracked routes and
\* the zone as they are, each time it happens.
C6_NoContentModeNoEffect ==
    [][ \A t \in Threads :
          (/\ frame'[t] # frame[t]
           /\ frame'[t].kind = "observe"
           /\ NoContentMode(frame'[t].route))
          => /\ pc'[t] = "done"
             /\ log'[t] = <<>>
             /\ trackedRoutes' = trackedRoutes
             /\ records' = records ]_vars

C6_Witness ==
    /\ pc["sweep"] = "done"
    /\ frame["sweep"].kind = "observe"
    /\ frame["sweep"].route.hostnames = <<Host>>
    /\ NoContentMode(frame["sweep"].route)
    /\ Ann("ttl") \in DOMAIN frame["sweep"].route.annotations
    /\ log["sweep"] = <<>>
    /\ pc["informer"] = "idle"
    /\ records # EmptyMap

\* The first IPv4 address a Gateway lists, if any.
FirstIPv4(gwKey) ==
    LET addresses == gateways[gwKey].addresses[1]
        at == {i \in 1..Len(addresses) : addresses[i] \in IPv4Literals}
    IN IF at = {} THEN None
       ELSE Some(addresses[CHOOSE i \in at : \A j \in at : i <= j])

\* The Gateway named by a route's first parent reference.
FirstParent(route) ==
    <<IF route.parentRefs[1].namespace = None THEN route.namespace
      ELSE route.parentRefs[1].namespace[1],
      route.parentRefs[1].name[1]>>

\* The dispatch of t, as it stands in the primed state, observes a
\* gateway-address route of type A with a hostname of at least two labels
\* whose first parent Gateway lists an IPv4 address.
GatewayCase(f) ==
    /\ f.kind = "observe"
    /\ MapGet(f.route.annotations, Ann("content-mode"), "") = "gateway-address"
    /\ MapGet(f.route.annotations, Ann("type"), "") = "A"
    /\ Len(f.route.hostnames) > 0
    /\ Len(f.route.hostnames[1]) >= 2
    /\ Len(f.route.parentRefs) > 0
    /\ FirstParent(f.route) \in DOMAIN gateways
    /\ FirstIPv4(FirstParent(f.route)) # None

\* C9: observing a gateway-address route of type A with first hostname h (two
\* labels or more) whose first parent Gateway lists an IPv4 address makes,
\* provided the cluster answers the Get of the Gateway and the provider the
\* zone lookup, one zone lookup for the last two labels of h and exactly one
\* UpsertRecord call, for type A, name h and the first IPv4 address the
\* Gateway lists, and then tracks the route with lastIPs that one address and
\* the Gateway's namespace and name.
C9_GatewayAddressOneUpsert ==
    [][ \A t \in Threads :
        LET f == frame[t]
            g == frame'[t]
            h == g.route.hostnames[1]
            gwKey == FirstParent(g.route)
            upsert == [call |-> "UpsertRecord",
                       record |-> [ID |-> <<>>, Type |-> "A", Name |-> h,
                                   Content |-> FirstIPv4(gwKey)[1],
                                   TTL |-> 1, Proxied |-> FALSE]]
        IN (GatewayCase(g) /\ pc'[t] # pc[t]) =>
           CASE pc[t] \in {"idle", "sweeping"} ->
                    \/ pc'[t] = "check" /\ log'[t] = <<>>
                    \/ pc'[t] = "done" /\ g.outcome = "get-failed" /\ log'[t] = <<>>
             [] pc[t] = "check" ->
                    /\ Len(log'[t]) = 1
                    /\ log'[t][1].call = "GetZoneIDByName"
                    /\ log'[t][1].zone = <<h[Len(h) - 1], h[Len(h)]>>
                    /\ \/ pc'[t] = "upsert" /\ log'[t][1].err = ""
                       \/ pc'[t] = "done" /\ log'[t][1].err = "zone"
             [] pc[t] = "upsert" ->
                    /\ pc'[t] = "store"
                    /\ Len(log'[t]) = 2
                    /\ log'[t][1] = log[t][1]
                    /\ [call |-> log'[t][2].call, record |-> log'[t][2].record] = upsert
             [] pc[t] = "store" ->
                    /\ pc'[t] = "done"
                    /\ log'[t] = log[t]
                    /\ RouteKey(g.route.namespace, g.route.name) \in DOMAIN trackedRoutes'
                    /\ LET tracked == trackedRoutes'[RouteKey(g.route.namespace, g.route.name)]
                       IN /\ tracked.lastIPs = FirstIPv4(gwKey)
                          /\ <<tracked.gatewayNamespace, tracked.gatewayName>> = gwKey
                          /\ tracked.contentMode = "gateway-address"
             [] OTHER -> TRUE ]_vars

C9_Witness ==
    /\ pc["informer"] = "done"
    /\ frame["informer"].outcome = "applied"
    /\ frame["informer"].route = [GatewayRoute EXCEPT !.namespace = "web", !.name = "app1"]
    /\ gateways[<<"web", "gw">>].addresses
         = Some(<<"lb.example.net", "2001:db8::5", "203.0.113.9", "198.51.100.7">>)
    /\ Len(log["informer"]) = 2
    /\ log["informer"][2].record.Content = "203.0.113.9"
    /\ log["informer"][2].api = <<"ListDNSRecords", "CreateDNSRecord">>
    /\ log["informer"][2].err = ""
    /\ <<"web", "app1">> \in DOMAIN trackedRoutes
    /\ trackedRoutes[<<"web", "app1">>].lastIPs = <<"203.0.113.9">>
    /\ trackedRoutes[<<"web", "app1">>].gatewayName = "gw"
    /\ trackedRoutes[<<"web", "app1">>].gatewayNamespace = "web"

-----------------------------------------------------------------------------
(* createOrUpdateRecords on any list of addresses: a handler stands before  *)
(* the zone lookup of processDDNSMode with whatever the detector returned. *)

AddressUniverse ==
    {"203.0.113.5", "198.51.100.7", "2001:db8::5", "2001:db8::9",
     "::ffff:198.51.100.7", "lb.example.net"}

FanoutRoutes ==
    { [Route(Anns("ddns", type) @@ (Ann("ttl") :> <<"3", "0", "0">>)
                                @@ (Ann("proxied") :> "true"),
             <<Host>>, <<>>) EXCEPT !.namespace = "web", !.name = "app1"] :
      type \in {"A", "AAAA", "A/AAAA"} }

InitFanout ==
    /\ cfg = [Strategy |-> StrategyFull]
    /\ gateways = EmptyMap
    /\ publicIP = [v4 |-> None, v6 |-> None]
    /\ queue = <<>>
    /\ records = EmptyMap
    /\ trackedRoutes = EmptyMap
    /\ sweep = NoSweep
    /\ log = [t \in Threads |-> <<>>]
    /\ adapter = None
    /\ run = NoRun
    /\ watcher = NoWatcher
    /\ \E route \in FanoutRoutes, ips \in SeqsUpTo(AddressUniverse, MaxIPs) :
        LET x == Extract(route)
        IN /\ cache = (RouteKey(route.namespace, route.name) :> route)
           /\ pc = [t \in Threads |-> IF t = "informer" THEN "check" ELSE "idle"]
           /\ frame = [t \in Threads |->
                        IF t = "informer"
                        THEN [NoFrame EXCEPT !.kind = "observe", !.route = route,
                                             !.namespace = route.namespace,
                                             !.name = route.name,
                                             !.contentMode = x.contentMode,
                                             !.zoneName = x.zoneName,
                                             !.recordName = x.recordName,
                                             !.recordType = x.recordType,
                                             !.ttl = x.ttl, !.proxied = x.proxied,
                                             !.ips = ips]
                        ELSE NoFrame]

NextFanout ==
    \/ Check("informer")
    \/ Upsert("informer")
    \/ Store("informer")
    \/ Return("informer")

SpecFanout == InitFanout /\ [][NextFanout]_vars

\* C8: for type A/AAAA and a list of two addresses, one IPv4 and one IPv6 in
\* either order, createOrUpdateRecords has made, when its loop is over,
\* exactly two UpsertRecord calls: one for an A record with the IPv4 address
\* and one for an AAAA record with the IPv6 address, each with the route's
\* record name, ttl and proxied flag.
C8_DualFamilyTwoUpserts ==
    LET f == frame["informer"]
        v4 == {i \in 1..Len(f.ips) : ParseIP(f.ips[i]) = "v4"}
        v6 == {i \in 1..Len(f.ips) : ParseIP(f.ips[i]) = "v6"}
        made == Upserts(log["informer"])
    IN (/\ pc["informer"] = "store"
        /\ f.recordType = "A/AAAA"
        /\ Len(f.ips) = 2 /\ Cardinality(v4) = 1 /\ Cardinality(v6) = 1)
       => /\ Len(made) = 2
          /\ {made[i].record : i \in 1..2}
               = { [ID |-> <<>>, Type |-> "A", Name |-> Host,
                    Content |-> f.ips[CHOOSE i \in v4 : TRUE], TTL |-> 300,
                    Proxied |-> TRUE],
                   [ID |-> <<>>, Type |-> "AAAA", Name |-> Host,
                    Content |-> f.ips[CHOOSE i \in v6 : TRUE], TTL |-> 300,
                    Proxied |-> TRUE] }

C8_Witness ==
    /\ pc["informer"] = "store"
    /\ frame["informer"].recordType = "A/AAAA"
    /\ frame["informer"].ips = <<"2001:db8::5", "203.0.113.5">>
    /\ Len(Upserts(log["informer"])) = 2
    /\ Upserts(log["informer"])[1].record.Type = "AAAA"
    /\ Upserts(log["informer"])[2].record.Type = "A"
    /\ DOMAIN records = {<<Host, "A">>, <<Host, "AAAA">>}

-----------------------------------------------------------------------------
(* The ttl annotation: a DDNS route with any ttl annotation is created.    *)

TTLAlphabet == {"0", "1", "2", "-", "+", "x"}

TTLStrings == SeqsUpTo(TTLAlphabet, MaxTTLLen) \cup {Auto, <<"A", "u", "t", "o">>}

TTLRoute(ttlStr) ==
    [Route(Anns("ddns", "A") @@ (Ann("ttl") :> ttlStr), <<Host>>, <<>>)
       EXCEPT !.namespace = "web", !.name = "app1"]

InitTTL ==
    /\ cfg = [Strategy |-> StrategyFull]
    /\ gateways = EmptyMap
    /\ publicIP = [v4 |-> Some("203.0.113.5"), v6 |-> None]
    /\ records = EmptyMap
    /\ trackedRoutes = EmptyMap
    /\ pc = [t \in Threads |-> "idle"]
    /\ frame = [t \in Threads |-> NoFrame]
    /\ sweep = NoSweep
    /\ log = [t \in Threads |-> <<>>]
    /\ adapter = None
    /\ run = NoRun
    /\ watcher = NoWatcher
    /\ \E ttlStr \in TTLStrings :
        /\ cache = (<<"web", "app1">> :> TTLRoute(ttlStr))
        /\ queue = <<[type |-> "add", obj |-> TTLRoute(ttlStr)]>>

NextTTL ==
    \/ InformerDispatch
    \/ Check("informer")
    \/ Upsert("informer")
    \/ Store("informer")
    \/ Return("informer")

SpecTTL == InitTTL /\ [][NextTTL]_vars

\* The decimal numeral of a natural number.
RECURSIVE Numeral(_)
Numeral(n) ==
    LET d == <<"0", "1", "2", "3", "4", "5", "6", "7", "8", "9">>
    IN IF n < 10 THEN <<d[n + 1]>> ELSE Append(Numeral(n \div 10), d[(n % 10) + 1])

\* A numeral without its leading zeros.
RECURSIVE StripZeros(_)
StripZeros(m) == IF Len(m) > 1 /\ m[1] = "0" THEN StripZeros(Tail(m)) ELSE m

\* The integers a string is a decimal spelling of: none or one.
Spelled(str) ==
    LET signed == Len(str) > 0 /\ str[1] \in {"+", "-"}
        m == IF signed THEN Tail(str) ELSE str
        digits == {"0", "1", "2", "3", "4", "5", "6", "7", "8", "9"}
    IN IF m = <<>> \/ {m[i] : i \in 1..Len(m)} \ digits # {} THEN {}
       ELSE {IF signed /\ str[1] = "-" THEN 0 - n ELSE n :
                n \in {k \in 0..(10 ^ Len(m) - 1) : Numeral(k) = StripZeros(m)}}

\* The ttl the claim gives for a ttl annotation.
DerivedTTL(str) ==
    IF str = <<>> \/ str = <<"a", "u", "t", "o">> THEN 1
    ELSE IF Spelled(str) = {} THEN 1
    ELSE LET n == CHOOSE k \in Spelled(str) : TRUE
         IN IF n < 1 THEN 1 ELSE n

\* C10: whatever the ttl annotation is, the route is processed (its handler
\* goes on to the zone lookup), and the ttl it is processed with, and that its
\* UpsertRecord call carries, is 1 for an empty annotation, for auto, for a
\* string that is not an integer and for an integer below 1, and n for an
\* integer n >= 1.
C10_DerivedTTLAtLeastOne ==
    [][ LET g == frame'["informer"]
            ttlStr == g.route.annotations[Ann("ttl")]
        IN /\ (pc["informer"] = "idle" /\ pc'["informer"] # "idle")
              => /\ pc'["informer"] = "check"
                 /\ g.ttl = DerivedTTL(ttlStr)
                 /\ g.ttl >= 1
           /\ (pc["informer"] = "upsert" /\ pc'["informer"] # "upsert")
              => /\ Len(Upserts(log'["informer"])) = 1
                 /\ Upserts(log'["informer"])[1].record.TTL = DerivedTTL(ttlStr) ]_vars

C10_Witness ==
    /\ pc["informer"] = "store"
    /\ frame["informer"].route.annotations[Ann("ttl")] = <<"1", "x">>
    /\ frame["informer"].ttl = 1
    /\ Len(Upserts(log["informer"])) = 1
    /\ Upserts(log["informer"])[1].record.TTL = 1
    /\ Upserts(log["informer"])[1].err = ""

-----------------------------------------------------------------------------
(* GetGatewayAddresses on any status.addresses and any record type: a       *)
(* gateway-address route is created whose parent Gateway lists anything.   *)

AddressTypes == {"", "A", "AAAA", "A/AAAA", "CNAME"}

AddressRoute(type) ==
    [Route(Anns("gateway-address", type), <<Host>>, ParentGateway)
       EXCEPT !.namespace = "web", !.name = "app1"]

InitAddresses ==
    /\ cfg = [Strategy |-> StrategyFull]
    /\ publicIP = [v4 |-> None, v6 |-> None]
    /\ records = EmptyMap
    /\ trackedRoutes = EmptyMap
    /\ pc = [t \in Threads |-> "idle"]
    /\ frame = [t \in Threads |-> NoFrame]
    /\ sweep = NoSweep
    /\ log = [t \in Threads |-> <<>>]
    /\ adapter = None
    /\ run = NoRun
    /\ watcher = NoWatcher
    /\ \E type \in AddressTypes,
          listed \in {None} \cup {Some(a) : a \in SeqsUpTo(AddressUniverse, MaxIPs)} :
        /\ gateways = (<<"web", "gw">> :> [addresses |-> listed])
        /\ cache = (<<"web", "app1">> :> AddressRoute(type))
        /\ queue = <<[type |-> "add", obj |-> AddressRoute(type)]>>

NextAddresses ==
    \/ InformerDispatch
    \/ Check("informer")
    \/ Upsert("informer")
    \/ Store("informer")
    \/ Return("informer")

SpecAddresses == InitAddresses /\ [][NextAddresses]_vars

\* The first of the listed values that is an IP literal of the family, as a
\* list of none or one.
FirstOfFamily(listed, family) ==
    LET at == {i \in 1..Len(listed) : ParseIP(listed[i]) = family}
    IN IF at = {} THEN <<>>
       ELSE <<listed[CHOOSE i \in at : \A j \in at : i <= j]>>

\* What the claim has GetGatewayAddresses return: <<>> stands for the error.
ClaimedAddresses(listed, type) ==
    CASE type = "A" -> FirstOfFamily(listed, "v4")
      [] type = "AAAA" -> FirstOfFamily(listed, "v6")
      [] type = "A/AAAA" -> FirstOfFamily(listed, "v4") \o FirstOfFamily(listed, "v6")
      [] OTHER -> <<>>

\* C11: GetGatewayAddresses returns, of the IP literals status.addresses lists,
\* the first IPv4 one for A, the first IPv6 one for AAAA, and the first IPv4
\* one (if any) followed by the first IPv6 one (if any) for A/AAAA; it returns
\* an error and no address when there is none of these, when there is no
\* status.addresses, and for any other record type.  (Seen from the handler
\* that called it: the addresses it goes on with, or its return.)
C11_GatewayAddressesByFamily ==
    [][ LET g == frame'["informer"]
            gw == gateways[<<"web", "gw">>]
            type == IF MapGet(g.route.annotations, Ann("type"), "") = "" THEN "A"
                    ELSE g.route.annotations[Ann("type")]
            claimed == IF gw.addresses = None THEN <<>>
                       ELSE ClaimedAddresses(gw.addresses[1], type)
        IN (pc["informer"] = "idle" /\ pc'["informer"] # "idle")
           => \/ pc'["informer"] = "done" /\ g.outcome = "get-failed"
              \/ /\ claimed = <<>>
                 /\ pc'["informer"] = "done" /\ g.outcome = "no-address" /\ g.ips = <<>>
              \/ /\ claimed # <<>>
                 /\ pc'["informer"] = "check" /\ g.ips = claimed ]_vars

C11_Witness ==
    /\ pc["informer"] = "check"
    /\ frame["informer"].recordType = "A/AAAA"
    /\ gateways[<<"web", "gw">>].addresses = Some(<<"2001:db8::9", "198.51.100.7">>)
    /\ frame["informer"].ips = <<"198.51.100.7", "2001:db8::9">>

-----------------------------------------------------------------------------
(* Drift: somebody edits or removes a record at the provider while the     *)
(* controller runs; the Gateway and the cluster's public address stay.     *)

\* A record of the zone is given another content, or is removed, by hand.
ProviderEdit(contents) ==
    /\ \E key \in DOMAIN records, edit \in contents \cup {"remove"} :
        /\ edit # records[key].Content
        /\ records' = IF edit = "remove" THEN MapDel(records, key)
                      ELSE [records EXCEPT ![key].Content = edit]
    /\ UNCHANGED <<run, watcher, cfg, cache, queue, gateways, publicIP, trackedRoutes, pc, frame,
                   sweep, log, adapter>>

InitDrift ==
    /\ Start
    /\ cfg = [Strategy |-> StrategyFull]
    /\ gateways = (<<"web", "gw">> :> [addresses |-> Some(<<"203.0.113.5">>)])
    /\ publicIP = [v4 |-> Some("203.0.113.5"), v6 |-> None]

NextDrift ==
    \/ ClusterApply(RouteKeys, {DDNSRoute, GatewayRoute})
    \/ ClusterDelete(RouteKeys)
    \/ ProviderEdit({"198.51.100.7"})
    \/ ControllerStep

SpecDrift == InitDrift /\ [][NextDrift]_vars

\* The provider's record for a tracked route carries the five fields last
\* applied for it.
AsLastApplied(recs, tracked) ==
    LET key == <<tracked.recordName, tracked.recordType>>
    IN /\ key \in DOMAIN recs
       /\ Len(tracked.lastIPs) = 1
       /\ recs[key].Type = tracked.recordType
       /\ recs[key].Name = tracked.recordName
       /\ recs[key].Content = tracked.lastIPs[1]
       /\ recs[key].TTL = tracked.ttl
       /\ recs[key].Proxied = tracked.proxied

\* The reconciliation job is through with the provider for a route it found
\* tracked, unchanged and with its addresses unchanged, and none of its calls
\* failed.
SweepSettles ==
    LET f == frame'["sweep"]
        routeKey == RouteKey(f.namespace, f.name)
    IN /\ pc["sweep"] \in {"check", "upsert"}
       /\ pc'["sweep"] \in {"done", "store"}
       /\ f.kind = "observe"
       /\ routeKey \in DOMAIN trackedRoutes
       /\ trackedRoutes[routeKey] = TrackedOf(f)
       /\ \A i \in 1..Len(log'["sweep"]) : log'["sweep"][i].err = ""

-----------------------------------------------------------------------------
(* unnamed/part_001: the controller that watches the HTTPRoutes itself.    *)
(* watchHTTPRoutes runs on the goroutine called "informer" here, and the   *)
(* queue holds the events the API server has for the current or the next   *)
(* watch.  The handlers it calls are modelled by those of                  *)
(* pkg/controller/httproute.go.                                            *)

\* time.Sleep(5 * time.Second), in seconds.
watchBackoff == 5

\* k8sClient.WatchHTTPRoutes(c.ctx) at the top of the outer loop; a request
\* made with a cancelled context fails.
WatchHTTPRoutes ==
    /\ watcher.loop = "opening"
    /\ watcher.opened < MaxWatches
    /\ \E ok \in (IF watcher.cancelled THEN {FALSE} ELSE BOOLEAN) :
        watcher' = IF ok THEN [watcher EXCEPT !.loop = "select", !.chan = "open",
                                              !.stopped = FALSE, !.opened = @ + 1]
                   ELSE [watcher EXCEPT !.loop = "returned"]
    /\ UNCHANGED <<run, cfg, cache, queue, gateways, publicIP, records, trackedRoutes, pc,
                   frame, sweep, log, adapter>>

\* The API server or the connection ends the watch: ResultChan() is closed.
ChannelClose ==
    /\ watcher.chan = "open"
    /\ watcher' = [watcher EXCEPT !.chan = "closed"]
    /\ UNCHANGED <<run, cfg, cache, queue, gateways, publicIP, records, trackedRoutes, pc,
                   frame, sweep, log, adapter>>

\* Controller.Stop: c.cancel().
Cancel ==
    /\ ~watcher.cancelled
    /\ watcher.loop # "none"
    /\ watcher' = [watcher EXCEPT !.cancelled = TRUE]
    /\ UNCHANGED <<run, cfg, cache, queue, gateways, publicIP, records, trackedRoutes, pc,
                   frame, sweep, log, adapter>>

\* select, case <-c.ctx.Done().
WatchCancelled ==
    /\ watcher.loop = "select" /\ pc["informer"] = "idle"
    /\ watcher.cancelled
    /\ watcher' = [watcher EXCEPT !.stopped = TRUE, !.loop = "returned"]
    /\ UNCHANGED <<run, cfg, cache, queue, gateways, publicIP, records, trackedRoutes, pc,
                   frame, sweep, log, adapter>>

\* select, case event, ok := <-watcher.ResultChan() with !ok: the watcher is
\* stopped and the goroutine sleeps.
WatchClosed ==
    /\ watcher.loop = "select" /\ pc["informer"] = "idle"
    /\ watcher.chan = "closed"
    /\ watcher' = [watcher EXCEPT !.stopped = TRUE, !.loop = "sleeping",
                                  !.sleep = watchBackoff]
    /\ UNCHANGED <<run, cfg, cache, queue, gateways, publicIP, records, trackedRoutes, pc,
                   frame, sweep, log, adapter>>

\* The sleep is over and the break statement is executed: inside a select, a
\* break without a label ends the select, so the inner for loop goes on with
\* the same watcher.
WatchBackoff ==
    /\ watcher.loop = "sleeping"
    /\ watcher' = [watcher EXCEPT !.loop = "select", !.sleep = 0]
    /\ UNCHANGED <<run, cfg, cache, queue, gateways, publicIP, records, trackedRoutes, pc,
                   frame, sweep, log, adapter>>

\* select, case event, ok := <-watcher.ResultChan() with an event: the switch
\* on event.Type calls processHTTPRoute or processHTTPRouteDeletion.
WatchEvent ==
    /\ watcher.loop = "select"
    /\ watcher.chan = "open"
    /\ InformerDispatch

InitWatch ==
    /\ cache = EmptyMap
    /\ queue = <<>>
    /\ records = EmptyMap
    /\ trackedRoutes = EmptyMap
    /\ pc = [t \in Threads |-> "idle"]
    /\ frame = [t \in Threads |-> NoFrame]
    /\ sweep = NoSweep
    /\ log = [t \in Threads |-> <<>>]
    /\ adapter = None
    /\ run = NoRun
    /\ watcher = [NoWatcher EXCEPT !.loop = "opening"]
    /\ cfg = [Strategy |-> StrategyFull]
    /\ gateways = EmptyMap
    /\ publicIP = [v4 |-> Some("203.0.113.5"), v6 |-> None]

NextWatch ==
    \/ ClusterApply(RouteKeys, DDNSRoutes)
    \/ ClusterDelete(RouteKeys)
    \/ WatchHTTPRoutes
    \/ ChannelClose
    \/ Cancel
    \/ WatchCancelled
    \/ WatchClosed
    \/ WatchBackoff
    \/ WatchEvent
    \/ Check("informer")
    \/ Upsert("informer")
    \/ Store("informer")
    \/ Delete("informer")
    \/ Untrack("informer")
    \/ Return("informer")

SpecWatch == InitWatch /\ [][NextWatch]_vars

\* C13: in the watch loop, when the result channel is closed and the
\* controller has not been cancelled, the loop waits the backoff of 5 s and
\* then opens a new watch (so that the events produced after the closure are
\* received and dispatched): after the wait the loop stands before
\* WatchHTTPRoutes, never again at the select on the watcher it has stopped.
C13_BackoffThenNewWatch ==
    [][ (watcher.loop = "sleeping" /\ watcher'.loop # "sleeping" /\ ~watcher.cancelled)
        => (watcher.sleep = watchBackoff /\ watcher'.loop = "opening") ]_vars

-----------------------------------------------------------------------------
(* Routes whose type annotation names no address record, in a zone that    *)
(* holds records of other types under the same name.                       *)

TypedRoutes ==
    { Route(Anns("ddns", type), <<Host>>, <<>>) : type \in {"A", "CNAME", "TXT"} }

\* Records somebody else keeps under the route's hostname.
OtherRecords ==
    { [ID |-> RecordID(Host, "CNAME"), Type |-> "CNAME", Name |-> Host,
       Content |-> "lb.example.net", TTL |-> 300, Proxied |-> FALSE, Comment |-> ""],
      [ID |-> RecordID(Host, "TXT"), Type |-> "TXT", Name |-> Host,
       Content |-> "v=spf1 -all", TTL |-> 300, Proxied |-> FALSE, Comment |-> ""] }

InitTypes ==
    /\ cache = EmptyMap
    /\ queue = <<>>
    /\ trackedRoutes = EmptyMap
    /\ pc = [t \in Threads |-> "idle"]
    /\ frame = [t \in Threads |-> NoFrame]
    /\ sweep = NoSweep
    /\ log = [t \in Threads |-> <<>>]
    /\ adapter = None
    /\ run = NoRun
    /\ watcher = NoWatcher
    /\ cfg = [Strategy |-> StrategyFull]
    /\ gateways = EmptyMap
    /\ publicIP = [v4 |-> Some("203.0.113.5"), v6 |-> None]
    /\ \E held \in SUBSET OtherRecords :
         records = [key \in {<<rec.Name, rec.Type>> : rec \in held} |->
                      CHOOSE rec \in held : <<rec.Name, rec.Type>> = key]

NextTypes ==
    \/ ClusterApply(RouteKeys, TypedRoutes)
    \/ ClusterDelete(RouteKeys)
    \/ ControllerStep

SpecTypes == InitTypes /\ [][NextTypes]_vars

AddressRecordTypes == {"A", "AAAA"}

\* C14: every find, create, update or delete the controller issues at the
\* provider is for a record of type A or AAAA, whatever the type annotation
\* of the observed or deleted route says.
C14_OnlyAddressRecordTypes ==
    \A t \in Threads : \A i \in 1..Len(log[t]) :
        LET c == log[t][i]
        IN /\ c.call = "FindRecord" => c.type \in AddressRecordTypes
           /\ c.call = "UpsertRecord" => c.record.Type \in AddressRecordTypes
           /\ c.call = "DeleteRecord" => c.id[3] \in AddressRecordTypes

-----------------------------------------------------------------------------
(* Two routes side by side; the first may ask for an address family the   *)
(* cluster has no public address of.                                       *)

TwoRouteKeys == {<<"web", "app1">>, <<"web", "app2">>}

InitTwoRoutes ==
    /\ Start
    /\ cfg = [Strategy |-> StrategyFull]
    /\ gateways = EmptyMap
    /\ publicIP = [v4 |-> Some("203.0.113.5"), v6 |-> None]

NextTwoRoutes ==
    \/ ClusterApply({<<"web", "app1">>}, DDNSRoutes)
    \/ ClusterApply({<<"web", "app2">>}, {DDNSRoute})
    \/ ClusterDelete(TwoRouteKeys)
    \/ ControllerStep

SpecTwoRoutes == InitTwoRoutes /\ [][NextTwoRoutes]_vars

\* The tracked entry of a route key, if any.
Entry(tracked, key) == IF key \in DOMAIN tracked THEN <<tracked[key]>> ELSE <<>>

\* C15: processing a route (observing it, deleting it, or its turn in the
\* job's tick), whether it succeeds or fails at any stage, leaves the tracked
\* entry of every other route key as it is, and does not keep the job from
\* going on to the remaining tracked routes: an entry changes only with the
\* step that ends the handling of its own key; the job's list of routes still
\* to do loses exactly the route taken up and is otherwise left alone until the
\* tick is over; and a handler returning while routes are left leads to the
\* next of them.
C15_OtherRoutesUnaffected ==
    [][ /\ \A key \in TwoRouteKeys :
            Entry(trackedRoutes, key) # Entry(trackedRoutes', key)
            => \E t \in Threads :
                 /\ pc[t] # "done" /\ pc'[t] = "done"
                 /\ RouteKey(frame'[t].namespace, frame'[t].name) = key
        /\ pc["sweep"] = "sweeping"
           => /\ sweep.todo # {}
              /\ sweep' # sweep => \E tr \in sweep.todo : sweep'.todo = sweep.todo \ {tr}
        /\ pc["sweep"] \notin {"idle", "sweeping"}
           => \/ sweep'.todo = sweep.todo
              \/ sweep.todo = {} /\ pc["sweep"] = "done" /\ pc'["sweep"] = "idle"
        /\ (pc["sweep"] = "done" /\ pc'["sweep"] # "done" /\ sweep.todo # {})
           => pc'["sweep"] = "sweeping" ]_vars

\* The job's handling of one tracked route has failed; another is tracked and
\* still to do.
C15_Witness ==
    /\ pc["sweep"] = "done"
    /\ frame["sweep"].outcome \in {"no-address", "zone-failed"}
    /\ sweep.todo # {}
    /\ \E tr \in sweep.todo : tr.key # KeyOf("sweep") /\ tr.key \in DOMAIN trackedRoutes

-----------------------------------------------------------------------------
(* The owner marker of the records the controller writes.                  *)

\* The record a goroutine's last UpsertRecord call has just created or
\* updated at the provider, as a list of none or one.
JustWritten(t) ==
    IF pc[t] = "upsert" /\ Len(log'[t]) = Len(log[t]) + 1
    THEN LET c == log'[t][Len(log'[t])]
         IN IF /\ c.call = "UpsertRecord" /\ c.err = ""
               /\ Calls(c.api) \cap {"CreateDNSRecord", "UpdateDNSRecord"} # {}
            THEN <<records'[<<c.record.Name, c.record.Type>>]>>
            ELSE <<>>
    ELSE <<>>

\* C16: every create and every update the controller sends to the provider
\* carries the controller's non-empty owner marker: after a successful create
\* or update the provider's record has the owner identity as its marker, also
\* when the record existed with an empty marker.
C16_WritesCarryOwnerMarker ==
    [][ \A t \in Threads :
          JustWritten(t) # <<>>
          => (OwnerID # "" /\ JustWritten(t)[1].Comment = OwnerID) ]_vars

-----------------------------------------------------------------------------
(* What a handled deletion leaves of the tracked route.                    *)

\* C17: when a deletion event has been handled with deletion enabled
\* (strategy full) for a route with a recognized intent, the route's key is
\* not in the tracked routes as the handler returns, whatever the provider
\* calls returned (delete failure, find failure, zone lookup failure).
C17_DeletionAlwaysUntracks ==
    [][ LET g == frame'["informer"]
        IN (/\ pc["informer"] # "done" /\ pc'["informer"] = "done"
            /\ g.kind = "delete"
            /\ cfg.Strategy = StrategyFull
            /\ Extract(g.route).stop = "")
           => RouteKey(g.namespace, g.name) \notin DOMAIN trackedRoutes' ]_vars

-----------------------------------------------------------------------------
(* Routes whose addresses cannot be resolved: no parent, a parent Gateway  *)
(* that does not exist, a Gateway or a cluster without an address of the   *)
(* family asked for, a record type that is none, lookup services that are  *)
(* down.                                                                   *)

ResolveRoutes ==
    { DDNSRoute,
      Route(Anns("ddns", "AAAA"), <<Host>>, <<>>),
      Route(Anns("ddns", "CNAME"), <<Host>>, <<>>),
      GatewayRoute,
      Route(Anns("gateway-address", "AAAA"), <<Host>>, ParentGateway),
      Route(Anns("gateway-address", "A"), <<Host>>, <<>>),
      Route(Anns("gateway-address", "A"), <<Host>>,
            <<[name |-> Some("gw"), namespace |-> Some("infra")]>>) }

LookupAnswers ==
    { [v4 |-> Some("203.0.113.5"), v6 |-> None], [v4 |-> None, v6 |-> None] }

\* The lookup services go down or come back.
LookupOutage(answers) ==
    /\ \E a \in answers :
        /\ a # publicIP
        /\ publicIP' = a
    /\ UNCHANGED <<run, cfg, cache, queue, gateways, records, trackedRoutes, pc, frame,
                   sweep, log, adapter, watcher>>

InitResolve ==
    /\ Start
    /\ cfg = [Strategy |-> StrategyFull]
    /\ gateways = (<<"web", "gw">> :> [addresses |-> Some(<<"203.0.113.5">>)])
    /\ publicIP \in LookupAnswers

\* Routes are created and changed, never deleted.
NextResolve ==
    \/ ClusterApply(RouteKeys, ResolveRoutes)
    \/ LookupOutage(LookupAnswers)
    \/ InformerDispatch
    \/ Tick
    \/ SweepNext
    \/ \E t \in Threads : Check(t)
    \/ \E t \in Threads : Upsert(t)
    \/ \E t \in Threads : Store(t)
    \/ \E t \in Threads : Return(t)

SpecResolve == InitResolve /\ [][NextResolve]_vars

\* The address families a record type asks for.
FamiliesOf(type) ==
    CASE type = "A" -> {"v4"}
      [] type = "AAAA" -> {"v6"}
      [] type = "A/AAAA" -> {"v4", "v6"}
      [] OTHER -> {}

\* There is no address to be had for a route with a content mode.
Unresolvable(route) ==
    LET mode == MapGet(route.annotations, Ann("content-mode"), "")
        type == IF MapGet(route.annotations, Ann("type"), "") = "" THEN "A"
                ELSE route.annotations[Ann("type")]
    IN IF mode = "gateway-address"
       THEN \/ route.parentRefs = <<>>
            \/ FirstParent(route) \notin DOMAIN gateways
            \/ gateways[FirstParent(route)].addresses = None
            \/ LET listed == gateways[FirstParent(route)].addresses[1]
               IN \A i \in 1..Len(listed) : ParseIP(listed[i]) \notin FamiliesOf(type)
       ELSE \A family \in FamiliesOf(type) : publicIP[family] = None

\* C18: when the addresses of a managed route cannot be resolved (Gateway
\* missing, no parentRefs, no address of the family asked for, unsupported
\* record type, every public address lookup failing), the handler returns
\* where it stands: no provider call is made for the route, and the tracked
\* routes are exactly as before.
C18_ResolutionFailureNoEffect ==
    [][ \A t \in Threads :
          LET f == frame'[t]
          IN (/\ pc[t] \in {"idle", "sweeping"} /\ pc'[t] \notin {"idle", "sweeping"}
              /\ f.kind = "observe" /\ f.route # NoRoute
              /\ Extract(f.route).stop = ""
              /\ Unresolvable(f.route))
             => /\ pc'[t] = "done"
                /\ f.outcome \in {"no-parent", "get-failed", "no-address"}
                /\ log'[t] = <<>>
                /\ records' = records
                /\ trackedRoutes' = trackedRoutes ]_vars

\* The route is tracked as a DDNS route for an A record and now asks for a
\* record type that is none: the job has returned from it, and the entry is
\* the old one.
C18_Witness ==
    /\ pc["sweep"] = "done"
    /\ frame["sweep"].outcome = "no-address"
    /\ MapGet(frame["sweep"].route.annotations, Ann("type"), "") = "CNAME"
    /\ <<"web", "app1">> \in DOMAIN trackedRoutes
    /\ trackedRoutes[<<"web", "app1">>].recordType = "A"
    /\ trackedRoutes[<<"web", "app1">>].lastIPs = <<"203.0.113.5">>

-----------------------------------------------------------------------------
(* Gateway-address routes are applied on every trigger.                    *)

\* The zone lookup of t's dispatch has just succeeded.
ZoneFound(t) ==
    /\ Len(log'[t]) = Len(log[t]) + 1
    /\ log'[t][Len(log'[t])].call = "GetZoneIDByName"
    /\ log'[t][Len(log'[t])].err = ""

-----------------------------------------------------------------------------
(* The reconciliation job and routes that are gone.                        *)

\* C20: in a tick of the reconciliation job, a tracked route that is not in
\* the job's listing of the cluster's routes is removed from the tracked
\* routes with no provider call made for it; and the job never deletes at
\* the provider: a record disappears from the zone only in the handling of a
\* deletion notification.
C20_SweepDropsWithoutProviderCall ==
    [][ /\ pc["sweep"] = "sweeping"
           => \A tr \in sweep.todo \ sweep'.todo :
                tr.key \notin DOMAIN sweep.cacheRoutes
                => /\ tr.key \notin DOMAIN trackedRoutes'
                   /\ pc'["sweep"] = "done"
                   /\ log'["sweep"] = <<>>
                   /\ records' = records
        /\ \A i \in 1..Len(log'["sweep"]) :
             /\ log'["sweep"][i].call \notin {"DeleteRecord", "FindRecord"}
             /\ "DeleteDNSRecord" \notin Calls(log'["sweep"][i].api)
        /\ (DOMAIN records \ DOMAIN records' # {})
           => /\ pc["informer"] = "delete" /\ frame["informer"].kind = "delete"
              /\ pc["sweep"] = pc'["sweep"] ]_vars

\* The job has dropped a route that was deleted while deletion is disabled;
\* its record is still in the zone.
C20_Witness ==
    /\ pc["sweep"] = "done"
    /\ frame["sweep"].kind = "drop"
    /\ cfg.Strategy = StrategyUpsertOnly
    /\ KeyOf("sweep") \notin DOMAIN trackedRoutes
    /\ KeyOf("sweep") \notin DOMAIN cache
    /\ log["sweep"] = <<>>
    /\ records # EmptyMap

-----------------------------------------------------------------------------
(* A tracked route that loses its content mode.                            *)

\* The route's content-mode annotation is missing, empty, or none this
\* controller knows.
Unmanaged(route) ==
    MapGet(route.annotations, Ann("content-mode"), "") \notin {"ddns", "gateway-address"}

\* C21: when a route is observed (by an update notification or by the
\* reconciliation job) with its content-mode annotation removed, emptied or
\* set to a value that is not recognized, the route's key is not in the
\* tracked routes after that observation.
C21_UnmanagedRouteUntracked ==
    [][ \A t \in Threads :
          (/\ pc[t] # "done" /\ pc'[t] = "done"
           /\ frame'[t].kind = "observe"
           /\ frame'[t].route # NoRoute
           /\ Unmanaged(frame'[t].route))
          => RouteKey(frame'[t].route.namespace, frame'[t].route.name)
                \notin DOMAIN trackedRoutes' ]_vars

-----------------------------------------------------------------------------
(* What is tracked after the records of a route have been applied.         *)

\* The intent the annotations and the first hostname of a route state.
IntentOf(route) ==
    [contentMode |-> route.annotations[Ann("content-mode")],
     zoneName |-> SubSeq(route.hostnames[1], Len(route.hostnames[1]) - 1,
                         Len(route.hostnames[1])),
     recordName |-> route.hostnames[1],
     recordType |-> IF MapGet(route.annotations, Ann("type"), "") = "" THEN "A"
                    ELSE route.annotations[Ann("type")],
     ttl |-> DerivedTTL(MapGet(route.annotations, Ann("ttl"), <<>>)),
     proxied |-> MapGet(route.annotations, Ann("proxied"), "")
                   \in {"1", "t", "T", "TRUE", "true", "True"}]

\* C22: whenever the records of a managed route are applied (addresses
\* resolved, zone found, createOrUpdateRecords called), the handler goes on to
\* record the route, and the tracked entry of the route's key is then the new
\* intent (contentMode, zoneName, recordName, recordType, ttl, proxied) with
\* the addresses just resolved as lastIPs, whether the provider calls created,
\* updated, did nothing or failed.
C22_AppliedRouteIsTracked ==
    [][ \A t \in Threads :
          LET f == frame[t]
              routeKey == RouteKey(f.route.namespace, f.route.name)
          IN /\ (pc[t] = "upsert" /\ pc'[t] # "upsert") => pc'[t] = "store"
             /\ (pc[t] = "store" /\ pc'[t] # "store")
                => /\ routeKey \in DOMAIN trackedRoutes'
                   /\ LET e == trackedRoutes'[routeKey]
                          intent == IntentOf(f.route)
                      IN /\ e.contentMode = intent.contentMode
                         /\ e.zoneName = intent.zoneName
                         /\ e.recordName = intent.recordName
                         /\ e.recordType = intent.recordType
                         /\ e.ttl = intent.ttl
                         /\ e.proxied = intent.proxied
                         /\ e.lastIPs = f.ips
                         /\ \A i \in 1..Len(Upserts(log[t])) :
                              \E j \in 1..Len(e.lastIPs) :
                                 Upserts(log[t])[i].record.Content = e.lastIPs[j] ]_vars

\* A route has been recorded although its UpsertRecord call failed.
C22_Witness ==
    \E t \in Threads :
        /\ pc[t] = "done"
        /\ frame[t].outcome = "applied"
        /\ Len(Upserts(log[t])) = 1
        /\ Upserts(log[t])[1].err # ""
        /\ KeyOf(t) \in DOMAIN trackedRoutes
        /\ trackedRoutes[KeyOf(t)].lastIPs = frame[t].ips
        /\ trackedRoutes[KeyOf(t)].contentMode = frame[t].contentMode
        /\ records = EmptyMap

-----------------------------------------------------------------------------
(* DDNS routes are applied on every notification.                          *)

\* C23: the equal-address skip is the only short-circuit: a DDNS route
\* observed through an add or update notification or the initial listing (not
\* by the reconciliation job) always has UpsertRecord called when its address
\* and its zone are resolved, also when the route is tracked with lastIPs
\* equal to the addresses just detected.
C23_DDNSEventAlwaysUpserts ==
    [][ LET f == frame["informer"]
        IN (f.contentMode = "ddns" /\ ~f.isReconciliationUpdate)
           => /\ (pc["informer"] = "check" /\ pc'["informer"] # "check")
                 => /\ Len(log'["informer"]) = Len(log["informer"]) + 1
                    /\ log'["informer"][Len(log'["informer"])].call = "GetZoneIDByName"
                    /\ ZoneFound("informer") => pc'["informer"] = "upsert"
              /\ (pc["informer"] = "upsert" /\ pc'["informer"] # "upsert")
                 => /\ Len(Upserts(log'["informer"])) = Len(Upserts(log["informer"])) + 1
                    /\ pc'["informer"] = "store" ]_vars

\* A notification for a DDNS route that is tracked with the addresses just
\* detected: UpsertRecord has been called.
C23_Witness ==
    /\ pc["informer"] = "store"
    /\ frame["informer"].contentMode = "ddns"
    /\ ~frame["informer"].isReconciliationUpdate
    /\ KeyOf("informer") \in DOMAIN trackedRoutes
    /\ trackedRoutes[KeyOf("informer")].lastIPs = frame["informer"].ips
    /\ Len(Upserts(log["informer"])) = 1

-----------------------------------------------------------------------------
(* The fan-out of type A/AAAA over any address list.                       *)

\* The UpsertRecord calls of a record type among the calls of a dispatch.
UpsertsOf(calls, type) ==
    SelectSeq(calls, LAMBDA c : c.call = "UpsertRecord" /\ c.record.Type = type)

-----------------------------------------------------------------------------
(* A route of type A/AAAA in a cluster with a public address of either     *)
(* family.                                                                 *)

DualRoute == Route(Anns("ddns", "A/AAAA"), <<Host>>, <<>>)

InitDual ==
    /\ Start
    /\ cfg = [Strategy |-> StrategyFull]
    /\ gateways = EmptyMap
    /\ publicIP = [v4 |-> Some("203.0.113.5"), v6 |-> Some("2001:db8::5")]

NextDual ==
    \/ ClusterApply(RouteKeys, {DualRoute, DDNSRoute})
    \/ ClusterDelete(RouteKeys)
    \/ ControllerStep

SpecDual == InitDual /\ [][NextDual]_vars

\* The calls of a kind for a record type among the calls of a dispatch.
FindsOf(calls, type) ==
    SelectSeq(calls, LAMBDA c : c.call = "FindRecord" /\ c.type = type)

\* C25: in the handling of a route of type A/AAAA, a provider failure for one
\* family does not keep the other family from being attempted: when the
\* fan-out over an IPv4 and an IPv6 address is over, UpsertRecord has been
\* called for the A and for the AAAA record whatever either call returned, and
\* when the deletion handler is through with the provider, FindRecord has been
\* called for A and for AAAA, and DeleteRecord for every record found,
\* whatever the calls for the other type returned.
C25_FamiliesIndependent ==
    [][ \A t \in Threads :
          LET f == frame[t]
          IN /\ (/\ f.kind = "observe" /\ f.recordType = "A/AAAA"
                 /\ pc[t] = "store"
                 /\ FirstOfFamily(f.ips, "v4") # <<>> /\ FirstOfFamily(f.ips, "v6") # <<>>)
                => /\ UpsertsOf(log[t], "A") # <<>>
                   /\ UpsertsOf(log[t], "AAAA") # <<>>
             /\ (f.kind = "delete" /\ f.recordType = "A/AAAA" /\ pc[t] = "untrack")
                => /\ FindsOf(log[t], "A") # <<>>
                   /\ FindsOf(log[t], "AAAA") # <<>>
             /\ (/\ f.kind = "delete" /\ f.recordType = "A/AAAA"
                 /\ pc[t] = "delete" /\ frame'[t] # f)
                => /\ pc'[t] = (IF f.i = 1 THEN "delete" ELSE "untrack")
                   /\ Len(FindsOf(log'[t], f.types[f.i]))
                        = Len(FindsOf(log[t], f.types[f.i])) + 1
                   /\ LET find == FindsOf(log'[t], f.types[f.i])[1]
                          last == log'[t][Len(log'[t])]
                      IN (find.err = "" /\ <<f.recordName, f.types[f.i]>> \in DOMAIN records)
                         => /\ last.call = "DeleteRecord"
                            /\ last.id = records[<<f.recordName, f.types[f.i]>>].ID ]_vars

\* The deletion handler could not look the A record up, and has deleted the
\* AAAA record.
C25_Witness ==
    /\ pc["informer"] = "done"
    /\ frame["informer"].kind = "delete"
    /\ frame["informer"].recordType = "A/AAAA"
    /\ Len(log["informer"]) = 4
    /\ log["informer"][2].call = "FindRecord" /\ log["informer"][2].type = "A"
    /\ log["informer"][2].err # ""
    /\ log["informer"][3].call = "FindRecord" /\ log["informer"][3].type = "AAAA"
    /\ log["informer"][4].call = "DeleteRecord" /\ log["informer"][4].err = ""
    /\ DOMAIN records = {<<Host, "A">>}

-----------------------------------------------------------------------------
(* Deleting what is not there: the adapter's DeleteRecord of                *)
(* unnamed/part_000 called directly, and the deletion handler with the     *)
(* FindRecord and DeleteRecord of pkg/cloudflare/client.go, on one zone.   *)

InitDelete ==
    /\ Start
    /\ cfg = [Strategy |-> StrategyFull]
    /\ gateways = EmptyMap
    /\ publicIP = [v4 |-> Some("203.0.113.5"), v6 |-> None]

NextDelete ==
    \/ ProviderEdit({})
    \/ CallDeleteRecord
    \/ ClusterApply(RouteKeys, {DDNSRoute})
    \/ ClusterDelete(RouteKeys)
    \/ InformerDispatch
    \/ Check("informer")
    \/ Upsert("informer")
    \/ Store("informer")
    \/ Delete("informer")
    \/ Untrack("informer")
    \/ Return("informer")

SpecDelete == InitDelete /\ [][NextDelete]_vars

\* C26: deleting a record that is not at the provider is a no-op that
\* succeeds: DeleteRecord looks the record up by name and type before it
\* deletes, and when nothing is found it returns no error and sends no delete
\* request; the deletion handler sends no delete for a record type whose
\* FindRecord finds nothing.
C26_DeleteOfAbsentRecordNoOp ==
    [][ /\ (adapter' # adapter /\ adapter' # None /\ adapter'[1].op = "DeleteRecord")
           => LET call == adapter'[1]
              IN /\ call.api # <<>> /\ call.api[1] = "ListDNSRecords"
                 /\ (call.before = None /\ call.err # "find")
                    => /\ call.err = ""
                       /\ call.api = <<"ListDNSRecords">>
                       /\ records' = records
        /\ LET f == frame["informer"]
           IN (/\ pc["informer"] = "delete" /\ frame'["informer"] # f
               /\ <<f.recordName, f.types[f.i]>> \notin DOMAIN records)
              => /\ log'["informer"][Len(log'["informer"])].call = "FindRecord"
                 /\ Len(log'["informer"]) = Len(log["informer"]) + 1
                 /\ records' = records
                 /\ pc'["informer"] \in {"untrack", "done"} ]_vars

\* DeleteRecord has been called for a record that is not in the zone and has
\* returned no error, and the deletion handler has found no record to delete.
C26_Witness ==
    /\ adapter # None
    /\ adapter[1].op = "DeleteRecord"
    /\ adapter[1].before = None
    /\ adapter[1].err = ""
    /\ pc["informer"] = "untrack"
    /\ Len(log["informer"]) = 2
    /\ log["informer"][2].call = "FindRecord"
    /\ log["informer"][2].err = ""

-----------------------------------------------------------------------------
(* Deletion of routes of every record type: the route of a key is applied, *)
(* changed and deleted while the informer's handlers run; the cluster has  *)
(* an IPv4 and an IPv6 public address.                                     *)

WwwHost == <<"www", "example", "com">>

RemovalRoutes ==
    { DDNSRoute, DualRoute,
      Route(Anns("ddns", "A"), <<Host>>, <<>>),
      Route(Anns("ddns", "AAAA"), <<WwwHost, Host>>, <<>>) }

InitRemoval ==
    /\ Start
    /\ cfg = [Strategy |-> StrategyFull]
    /\ gateways = EmptyMap
    /\ publicIP = [v4 |-> Some("203.0.113.5"), v6 |-> Some("2001:db8::5")]

NextRemoval ==
    \/ ClusterApply(RouteKeys, RemovalRoutes)
    \/ ClusterDelete(RouteKeys)
    \/ InformerDispatch
    \/ Check("informer")
    \/ Upsert("informer")
    \/ Store("informer")
    \/ Delete("informer")
    \/ Untrack("informer")
    \/ Return("informer")

SpecRemoval == InitRemoval /\ [][NextRemoval]_vars

\* The record types the type annotation of a route stands for.
TypesToRemove(route) ==
    LET type == MapGet(route.annotations, Ann("type"), "")
    IN IF type = "A/AAAA" THEN {"A", "AAAA"}
       ELSE IF type = "" THEN {"A"}
       ELSE {type}

\* C27: with deletion enabled, the handling of a route's deletion event asks
\* the provider only about records named by the first hostname of the deleted
\* object and of the types its own type annotation stands for (A and AAAA
\* for A/AAAA, the one type for A or AAAA, A without the annotation); once the
\* handler is through with the provider it has looked up each of these types
\* once, and the records it deletes are among them.
C27_DeletionFollowsDeletedObject ==
    LET f == frame["informer"]
        calls == log["informer"]
        finds == SelectSeq(calls, LAMBDA c : c.call = "FindRecord")
        deletes == SelectSeq(calls, LAMBDA c : c.call = "DeleteRecord")
    IN (f.kind = "delete" /\ ShouldDelete(cfg) /\ f.route.hostnames # <<>>)
       => LET want == TypesToRemove(f.route)
              name == f.route.hostnames[1]
          IN /\ \A n \in 1..Len(finds) :
                    finds[n].name = name /\ finds[n].type \in want
             /\ \A n \in 1..Len(deletes) :
                    deletes[n].id \in {RecordID(name, type) : type \in want}
             /\ (pc["informer"] = "untrack" \/ f.outcome = "find-failed")
                => /\ {finds[n].type : n \in 1..Len(finds)} = want
                   /\ Len(finds) = Cardinality(want)

\* The deletion of a route of type A/AAAA has removed the A and the AAAA
\* record, while the route is still tracked with another type.
C27_Witness ==
    /\ pc["informer"] = "untrack"
    /\ frame["informer"].kind = "delete"
    /\ MapGet(frame["informer"].route.annotations, Ann("type"), "") = "A/AAAA"
    /\ Len(log["informer"]) = 5
    /\ log["informer"][3].call = "DeleteRecord" /\ log["informer"][3].err = ""
    /\ log["informer"][5].call = "DeleteRecord" /\ log["informer"][5].err = ""
    /\ <<"web", "app1">> \in DOMAIN trackedRoutes
    /\ trackedRoutes[<<"web", "app1">>].recordType # "A/AAAA"

-----------------------------------------------------------------------------
(* The watch loop after cancellation.                                      *)

\* C28: once the controller is cancelled, the watch loop begins no further
\* backoff sleep and opens no new watch, also when the result channel is
\* closed at that moment.
C28_NoBackoffAfterCancel ==
    [][ watcher.cancelled
          => /\ ~(watcher.loop # "sleeping" /\ watcher'.loop = "sleeping")
             /\ watcher'.opened = watcher.opened ]_vars

-----------------------------------------------------------------------------
(* Shutdown of the controller of pkg/controller: Stop cancels the context  *)
(* while the informer's handlers and the reconciliation job run.           *)

\* Controller.Stop: c.cancel().
Stop ==
    /\ ~run.cancelled
    /\ run' = [run EXCEPT !.cancelled = TRUE]
    /\ UNCHANGED <<watcher, cfg, cache, queue, gateways, publicIP, records, trackedRoutes,
                   pc, frame, sweep, log, adapter>>

\* The ticker fires while the job is busy with a sweep: the tick waits in the
\* ticker's channel, which holds one.
TickerFire ==
    /\ run.job = "running"
    /\ pc["sweep"] # "idle"
    /\ ~run.tick
    /\ run' = [run EXCEPT !.tick = TRUE]
    /\ UNCHANGED <<watcher, cfg, cache, queue, gateways, publicIP, records, trackedRoutes,
                   pc, frame, sweep, log, adapter>>

\* runReconciliationJob, lines 483-506: the job comes to its select and a
\* tick waits in the channel; select takes a ready case, whether or not the
\* context is cancelled as well.
TickBuffered ==
    /\ pc["sweep"] = "idle"
    /\ run.job = "running"
    /\ run.tick
    /\ run' = [run EXCEPT !.tick = FALSE]
    /\ IF DOMAIN trackedRoutes = {} THEN UNCHANGED <<sweep, pc>>
       ELSE /\ sweep' = [cacheRoutes |-> cache,
                         todo |-> {[key |-> RouteKey(trackedRoutes[k].namespace,
                                                     trackedRoutes[k].name),
                                    contentMode |-> trackedRoutes[k].contentMode] :
                                   k \in DOMAIN trackedRoutes}]
            /\ pc' = [pc EXCEPT !["sweep"] = "sweeping"]
    /\ UNCHANGED <<watcher, cfg, cache, queue, gateways, publicIP, records, trackedRoutes,
                   frame, log, adapter>>

\* runReconciliationJob, lines 485-486: case <-c.ctx.Done(): return.
JobDone ==
    /\ pc["sweep"] = "idle"
    /\ run.job = "running"
    /\ run.cancelled
    /\ run' = [run EXCEPT !.job = "returned"]
    /\ UNCHANGED <<watcher, cfg, cache, queue, gateways, publicIP, records, trackedRoutes,
                   pc, frame, sweep, log, adapter>>

\* startHTTPRouteInformer, lines 59-63: the goroutine that closes stopCh.
StopChClose ==
    /\ run.cancelled
    /\ run.stopCh = "open"
    /\ run' = [run EXCEPT !.stopCh = "closed"]
    /\ UNCHANGED <<watcher, cfg, cache, queue, gateways, publicIP, records, trackedRoutes,
                   pc, frame, sweep, log, adapter>>

\* Run, lines 83-86: <-c.ctx.Done(); return nil.
RunReturn ==
    /\ run.cancelled
    /\ run.main = "blocked"
    /\ run' = [run EXCEPT !.main = "returned"]
    /\ UNCHANGED <<watcher, cfg, cache, queue, gateways, publicIP, records, trackedRoutes,
                   pc, frame, sweep, log, adapter>>

InitStop ==
    /\ Start
    /\ cfg = [Strategy |-> StrategyFull]
    /\ gateways = EmptyMap
    /\ publicIP = [v4 |-> Some("203.0.113.5"), v6 |-> None]

NextStop ==
    \/ ClusterApply(RouteKeys, {DDNSRoute})
    \/ ClusterDelete(RouteKeys)
    \/ ControllerStep
    \/ Stop
    \/ TickerFire
    \/ TickBuffered
    \/ JobDone
    \/ StopChClose
    \/ RunReturn

SpecStop == InitStop /\ [][NextStop]_vars

\* C29: after Stop has cancelled the controller's context both drivers stop:
\* the reconciliation job's ticker loop starts no further sweep and exits, the
\* informer's stop channel is closed and Run returns nil, while a sweep or a
\* provider call that is in flight goes on to its end.  Stated for every
\* step: with the context cancelled no sweep begins, the job returns only
\* between sweeps, and neither the closed stop channel nor the returned Run
\* goes back.
C29_StopStopsBothDrivers ==
    [][ run.cancelled
          => /\ ~(pc["sweep"] = "idle" /\ pc'["sweep"] # "idle")
             /\ (run.job = "running" /\ run'.job = "returned") => pc["sweep"] = "idle"
             /\ run.job = "returned" => run'.job = "returned"
             /\ run.stopCh = "closed" => run'.stopCh = "closed"
             /\ run.main = "returned" => run'.main = "returned" ]_vars

-----------------------------------------------------------------------------
(* Receipt of events while a dispatch is under way.                        *)

\* C30: the event loop hands each event to its handler without waiting for
\* the dispatch to finish: while the handler of one event is still at one of
\* its cluster, provider or address-lookup calls and the next event waits on
\* the open watch channel, the loop is able to receive that event.
C30_ReceiptDuringDispatch ==
    (/\ watcher.loop = "select" /\ watcher.chan = "open"
     /\ queue # <<>>
     /\ pc["informer"] \in {"check", "upsert", "store", "delete", "untrack"})
    => ENABLED WatchEvent

-----------------------------------------------------------------------------
(* The lock of the tracked routes.  What each handler does with            *)
(* routesMutex and where it calls the network, in the order of the code:   *)
(* the informer runs the handlers of events, the reconciliation job the    *)
(* snapshot of a tick and then, per tracked route, the drop or the         *)
(* handler.  A call may end the handler (its error return).                *)

\* Faulty variant of LockSections: processDDNSMode takes the lock before it
\* asks for the zone and keeps it until the route is stored.
LockSectionsWide ==
    [h \in {"ddns-event", "ddns-sweep", "gateway", "delete", "tick", "drop"} |->
        IF h = "tick" THEN <<"RLock", "map", "RUnlock">>
        ELSE <<"Lock", "call", "call", "map", "Unlock">>]

LockSections ==
    [h \in {"ddns-event", "ddns-sweep", "gateway", "delete", "tick", "drop"} |->
        CASE h = "ddns-event" -> <<"call", "call", "call", "Lock", "map", "Unlock">>
          [] h = "ddns-sweep" -> <<"call", "RLock", "map", "RUnlock", "call", "call",
                                   "Lock", "map", "Unlock">>
          [] h = "gateway" -> <<"call", "call", "call", "Lock", "map", "Unlock">>
          [] h = "delete" -> <<"call", "call", "call", "call", "call",
                               "Lock", "map", "Unlock">>
          [] h = "tick" -> <<"RLock", "map", "RUnlock">>
          [] h = "drop" -> <<"Lock", "map", "Unlock">>]

\* The step after the one at hand: the next operation of the handler, or its
\* return.
LockAdvance(t, mutex) ==
    LET f == frame[t]
    IN /\ run' = [run EXCEPT !.routesMutex = mutex]
       /\ IF f.i = Len(LockSections[f.kind])
          THEN /\ frame' = [frame EXCEPT ![t] = NoFrame]
               /\ pc' = [pc EXCEPT ![t] = "idle"]
          ELSE /\ frame' = [frame EXCEPT ![t].i = f.i + 1]
               /\ pc' = [pc EXCEPT ![t] = "at"]
       /\ UNCHANGED <<watcher, cfg, cache, queue, gateways, publicIP, records,
                      trackedRoutes, sweep, log, adapter>>

\* A handler begins: of an event on the informer's goroutine, of the job
\* otherwise.
LockEnter(t) ==
    /\ pc[t] = "idle"
    /\ \E h \in (IF t = "informer" THEN {"ddns-event", "gateway", "delete"}
                 ELSE {"tick", "drop", "ddns-sweep", "gateway"}) :
        frame' = [frame EXCEPT ![t] = [NoFrame EXCEPT !.kind = h, !.i = 1]]
    /\ pc' = [pc EXCEPT ![t] = "at"]
    /\ UNCHANGED <<run, watcher, cfg, cache, queue, gateways, publicIP, records,
                   trackedRoutes, sweep, log, adapter>>

\* routesMutex.Lock, RLock, Unlock, RUnlock, and the reads and writes of the
\* map between them.  sync.RWMutex: Lock waits for the readers and the writer
\* to be gone, RLock for the writer.
LockOp(t) ==
    /\ pc[t] = "at"
    /\ LET op == LockSections[frame[t].kind][frame[t].i]
           m == run.routesMutex
       IN CASE op = "Lock" -> /\ m.writer = "" /\ m.readers = {}
                              /\ LockAdvance(t, [m EXCEPT !.writer = t])
            [] op = "RLock" -> /\ m.writer = ""
                               /\ LockAdvance(t, [m EXCEPT !.readers = @ \cup {t}])
            [] op = "Unlock" -> LockAdvance(t, [m EXCEPT !.writer = ""])
            [] op = "RUnlock" -> LockAdvance(t, [m EXCEPT !.readers = @ \ {t}])
            [] op = "map" -> LockAdvance(t, m)
            [] OTHER -> FALSE

\* The goroutine sends a request to the cluster API, the provider or an
\* address lookup service and waits for the answer.
LockCallBegin(t) ==
    /\ pc[t] = "at"
    /\ LockSections[frame[t].kind][frame[t].i] = "call"
    /\ pc' = [pc EXCEPT ![t] = "blocked"]
    /\ UNCHANGED <<run, watcher, cfg, cache, queue, gateways, publicIP, records,
                   trackedRoutes, frame, sweep, log, adapter>>

\* The answer is there: the handler goes on, or returns on an error.
LockCallEnd(t) ==
    /\ pc[t] = "blocked"
    /\ \E ok \in BOOLEAN :
        IF ok THEN LockAdvance(t, run.routesMutex)
        ELSE /\ frame' = [frame EXCEPT ![t] = NoFrame]
             /\ pc' = [pc EXCEPT ![t] = "idle"]
             /\ UNCHANGED <<run, watcher, cfg, cache, queue, gateways, publicIP, records,
                            trackedRoutes, sweep, log, adapter>>

NextLocks ==
    \E t \in Threads : LockEnter(t) \/ LockOp(t) \/ LockCallBegin(t) \/ LockCallEnd(t)

SpecLocks == InitStop /\ [][NextLocks]_vars

\* C31: in every reachable state no goroutine holds the lock of the tracked
\* routes, shared or exclusive, while it waits for the answer of a call to the
\* cluster API, the provider or an address lookup service; a goroutine that
\* is in no handler holds no lock either.
C31_NoLockAcrossCalls ==
    \A t \in Threads :
        pc[t] \in {"blocked", "idle"}
          => run.routesMutex.writer # t /\ t \notin run.routesMutex.readers

\* The job holds the lock shared for its snapshot while the informer's
\* handler waits for the provider.
C31_Witness ==
    /\ pc["informer"] = "blocked"
    /\ frame["informer"].kind = "ddns-event" /\ frame["informer"].i = 3
    /\ run.routesMutex.readers = {"sweep"}

\* ---------------------------------------------------------------------------
\* The public address detector on its own: every answer a lookup service can
\* give, every record type a caller can ask for.
\* ---------------------------------------------------------------------------

\* What one lookup service answers: nothing (request failed or status not
\* 200), or a body: an IPv4 literal, an IPv6 literal, an IPv4-mapped IPv6
\* literal, or text that is no address.
LookupBodies ==
    {None, Some("203.0.113.5"), Some("2001:db8::5"), Some("::ffff:198.51.100.7"),
     Some("not an address")}

DetectTypes == {"A", "AAAA", "A/AAAA", "CNAME", ""}

\* One call of GetPublicIPsByType; its result is kept in the caller's frame.
DetectByType ==
    /\ \E recordType \in DetectTypes :
        LET res == GetPublicIPsByType(publicIP, recordType)
        IN frame' = [frame EXCEPT !["informer"] =
                        [NoFrame EXCEPT !.kind = "by-type", !.recordType = recordType,
                                        !.ips = res.ips,
                                        !.outcome = IF res.err THEN "error" ELSE "ok"]]
    /\ UNCHANGED <<run, watcher, cfg, cache, queue, gateways, publicIP, records,
                   trackedRoutes, pc, sweep, log, adapter>>

\* One query of one lookup service.
DetectOne ==
    /\ \E ipType \in {"IPv4", "IPv6"} :
        LET res == IF ipType = "IPv4" THEN GetPublicIPv4(publicIP)
                   ELSE GetPublicIPv6(publicIP)
        IN frame' = [frame EXCEPT !["informer"] =
                        [NoFrame EXCEPT !.kind = "query", !.recordType = ipType,
                                        !.ips = IF res.err THEN <<>> ELSE <<res.ip>>,
                                        !.outcome = IF res.err THEN "error" ELSE "ok"]]
    /\ UNCHANGED <<run, watcher, cfg, cache, queue, gateways, publicIP, records,
                   trackedRoutes, pc, sweep, log, adapter>>

InitDetect ==
    /\ Start
    /\ cfg = [Strategy |-> StrategyFull]
    /\ gateways = EmptyMap
    /\ run = NoRun
    /\ watcher = NoWatcher
    /\ publicIP \in [v4 : LookupBodies, v6 : LookupBodies]

NextDetect == DetectByType \/ DetectOne

SpecDetect == InitDetect /\ [][NextDetect]_vars

\* The addresses the two queries give, IPv4 first, failed queries left out.
BothAnswers ==
    LET r4 == GetPublicIPv4(publicIP)
        r6 == GetPublicIPv6(publicIP)
    IN (IF r4.err THEN <<>> ELSE <<r4.ip>>) \o (IF r6.err THEN <<>> ELSE <<r6.ip>>)

\* C32: a lookup by record type gives, for A, exactly the IPv4 query's answer
\* and fails when that query fails; for AAAA the same with the IPv6 query; for
\* A/AAAA the answers of both queries, IPv4 before IPv6, a failed query left
\* out, failing only when both fail; any other type fails; and a list that is
\* returned is never empty.
C32_LookupByType ==
    LET f == frame["informer"]
        r4 == GetPublicIPv4(publicIP)
        r6 == GetPublicIPv6(publicIP)
    IN f.kind = "by-type" =>
        /\ f.recordType = "A" =>
              IF r4.err THEN f.outcome = "error" ELSE f.outcome = "ok" /\ f.ips = <<r4.ip>>
        /\ f.recordType = "AAAA" =>
              IF r6.err THEN f.outcome = "error" ELSE f.outcome = "ok" /\ f.ips = <<r6.ip>>
        /\ f.recordType = "A/AAAA" =>
              /\ (f.outcome = "error") <=> (r4.err /\ r6.err)
              /\ f.outcome = "ok" => f.ips = BothAnswers
        /\ f.recordType \notin {"A", "AAAA", "A/AAAA"} => f.outcome = "error"
        /\ f.outcome = "ok" => f.ips # <<>>

C32_Witness ==
    /\ frame["informer"].kind = "by-type"
    /\ frame["informer"].recordType = "A/AAAA"
    /\ frame["informer"].outcome = "ok"
    /\ Len(frame["informer"].ips) = 1
    /\ publicIP.v4 = None

\* C33: a query of one lookup service succeeds only when the service answered
\* with a valid IP literal of the requested family (the family net.ParseIP and
\* To4 give it), and then returns that literal; a missing answer, text that
\* is no address, an IPv6 literal on the IPv4 query or an IPv4 literal on the
\* IPv6 query is a failure and returns no address.
C33_QueryValidatesFamily ==
    LET f == frame["informer"]
        answer == IF f.recordType = "IPv4" THEN publicIP.v4 ELSE publicIP.v6
        family == IF f.recordType = "IPv4" THEN "v4" ELSE "v6"
    IN f.kind = "query" =>
        /\ f.outcome = "ok" =>
              /\ answer # None
              /\ ParseIP(answer[1]) = family
              /\ f.ips = <<answer[1]>>
        /\ f.outcome = "error" => f.ips = <<>>

\* The IPv4 service answered with an IPv6 literal, and the query failed.
C33_Witness ==
    /\ frame["informer"].kind = "query"
    /\ frame["informer"].recordType = "IPv4"
    /\ publicIP.v4 = Some("2001:db8::5")
    /\ frame["informer"].outcome = "error"

\* ---------------------------------------------------------------------------
\* Routes whose hostnames give no zone, next to routes whose hostnames do.
\* ---------------------------------------------------------------------------

ZoneRoutes ==
    { Route(Anns("ddns", ""), <<>>, <<>>),
      Route(Anns("ddns", ""), << <<"localhost">> >>, <<>>),
      Route(Anns("gateway-address", "A"), << <<"localhost">>, Host >>, ParentGateway),
      Route(Anns("ddns", ""), << <<"example", "com">> >>, <<>>),
      Route(Anns("ddns", ""), << <<"a", "b", "example", "com">>, <<"localhost">> >>, <<>>),
      DDNSRoute }

NextZone ==
    \/ ClusterApply(RouteKeys, ZoneRoutes)
    \/ ClusterDelete(RouteKeys)
    \/ ControllerStep

SpecZone == InitDrift /\ [][NextZone]_vars

\* The last two labels of a name of at least two labels.
LastTwoLabels(h) == <<h[Len(h) - 1], h[Len(h)]>>

\* The route has no hostname, or its first hostname has fewer than two labels.
NoZone(route) == Len(route.hostnames) = 0 \/ Len(route.hostnames[1]) < 2

\* C34: when a handler is handed a route, the zone it derives is the last two
\* labels of the route's first hostname, and that is the zone it asks the
\* provider for; a route with no hostname, or whose first hostname has fewer
\* than two labels, is skipped at once: the handler is over, it has called
\* nothing, and the tracked routes and the provider's records are as before.
C34_ZoneIsLastTwoLabels ==
    [][\A t \in Threads :
        LET f == frame'[t]
        IN f.kind \in {"observe", "delete"} =>
            IF NoZone(f.route)
            THEN frame[t].kind = "none" =>
                    /\ pc'[t] = "done"
                    /\ log'[t] = <<>>
                    /\ trackedRoutes' = trackedRoutes
                    /\ records' = records
            ELSE /\ f.outcome \notin {"delete-disabled", "ignored"} =>
                        f.zoneName = LastTwoLabels(f.route.hostnames[1])
                 /\ \A i \in 1..Len(log'[t]) :
                        log'[t][i].call = "GetZoneIDByName" =>
                            log'[t][i].zone = LastTwoLabels(f.route.hostnames[1])]_vars

\* A tracked route was changed to a single-label hostname and is skipped.
C34_Witness ==
    /\ pc["informer"] = "done"
    /\ frame["informer"].outcome = "bad-zone"
    /\ <<"web", "app1">> \in DOMAIN trackedRoutes
    /\ trackedRoutes[<<"web", "app1">>].zoneName = <<"example", "com">>

\* ---------------------------------------------------------------------------
\* One route that is not changed any more, a provider that fails now and then,
\* and goroutines that keep running.
\* ---------------------------------------------------------------------------

InitRetry ==
    /\ cfg \in Strategies
    /\ gateways = (<<"web", "gw">> :> [addresses |-> Some(<<"203.0.113.5">>)])
    /\ publicIP = [v4 |-> Some("203.0.113.5"), v6 |-> None]
    /\ records = EmptyMap
    /\ trackedRoutes = EmptyMap
    /\ pc = [t \in Threads |-> "idle"]
    /\ frame = [t \in Threads |-> NoFrame]
    /\ sweep = NoSweep
    /\ log = [t \in Threads |-> <<>>]
    /\ adapter = None
    /\ run = NoRun
    /\ watcher = NoWatcher
    /\ \E r \in {DDNSRoute, GatewayRoute} :
        LET route == [r EXCEPT !.namespace = "web", !.name = "app1"]
        IN /\ cache = (<<"web", "app1">> :> route)
           /\ queue = <<[type |-> "add", obj |-> route]>>

NextRetry ==
    \/ InformerDispatch
    \/ Tick
    \/ SweepNext
    \/ \E t \in Threads : Check(t)
    \/ \E t \in Threads : Upsert(t)
    \/ \E t \in Threads : Store(t)
    \/ \E t \in Threads : Return(t)

\* The informer's goroutine and the job's goroutine keep running and the
\* ticker keeps firing (weak fairness of every step); the cluster API and the
\* provider do not fail for ever: a call that is made again and again
\* succeeds at some time (strong fairness of the successful outcome).
SpecRetry ==
    /\ InitRetry
    /\ [][NextRetry]_vars
    /\ WF_vars(InformerDispatch)
    /\ WF_vars(Tick)
    /\ WF_vars(SweepNext)
    /\ \A t \in Threads : WF_vars(Check(t))
    /\ \A t \in Threads : WF_vars(Upsert(t))
    /\ \A t \in Threads : WF_vars(Store(t))
    /\ \A t \in Threads : WF_vars(Return(t))
    /\ SF_vars(InformerDispatch /\ pc'["informer"] = "check")
    /\ SF_vars(SweepNext /\ pc'["sweep"] = "check")
    /\ \A t \in Threads : SF_vars(Check(t) /\ pc'[t] = "upsert")
    /\ \A t \in Threads : SF_vars(Upsert(t) /\ log'[t][Len(log'[t])].err = "")

\* An UpsertRecord call of a dispatch has failed.
UpsertFailed ==
    \E t \in Threads : \E i \in 1..Len(log[t]) :
        log[t][i].call = "UpsertRecord" /\ log[t][i].err # ""

\* The provider has the record the route asks for.
RecordAsDesired ==
    /\ <<Host, "A">> \in DOMAIN records
    /\ records[<<Host, "A">>].Content = "203.0.113.5"

\* C35: when the upsert for a managed route has failed and the route and its
\* addresses stay as they are, a later sweep issues the upsert again, so that
\* with a provider that recovers the record is eventually there with the
\* desired value, in DDNS mode as in gateway-address mode.
C35_FailedUpsertRetried == UpsertFailed ~> RecordAsDesired

\* The route carries annotations of this controller but no content mode the
\* controller knows.
NeverManagedShape(route) ==
    LET routeflareAnns == extractRouteflareAnnotations(route.annotations)
    IN /\ DOMAIN routeflareAnns # {}
       /\ MapGet(routeflareAnns, "content-mode", "") \notin {"ddns", "gateway-address"}

\* C36: the deletion handler of a route that was never managed (annotations
\* of this controller, but no content mode, or an empty or unknown one, and
\* not tracked) calls neither FindRecord nor DeleteRecord, whatever the
\* deletion strategy.
C36_NeverManagedDeletionSilent ==
    LET f == frame["informer"]
    IN (/\ f.kind = "delete"
        /\ NeverManagedShape(f.route)
        /\ RouteKey(f.namespace, f.name) \notin DOMAIN trackedRoutes)
       => \A i \in 1..Len(log["informer"]) :
             log["informer"][i].call \notin {"FindRecord", "DeleteRecord"}

\* The deletion handler of the informer has come to its end with every one of
\* its provider calls answered without error, the route is gone from the
\* informer's store, and the reconciliation job is between two sweeps.
DeletionAndSweepOver ==
    LET f == frame["informer"]
    IN /\ pc["informer"] = "done"
       /\ f.kind = "delete"
       /\ f.outcome = "untracked"
       /\ \A i \in 1..Len(log["informer"]) : log["informer"][i].err = ""
       /\ RouteKey(f.namespace, f.name) \notin DOMAIN cache
       /\ queue = <<>>
       /\ pc["sweep"] = "idle"

\* C37: a sweep that copied the tracked routes and the informer's store
\* before a route was deleted does not bring the route back: when the
\* deletion handler and the sweep are both over, the route is not tracked and
\* the provider has no record of the route's name and type.
C37_NoResurrectionBySweep ==
    LET f == frame["informer"]
    IN DeletionAndSweepOver =>
        /\ RouteKey(f.namespace, f.name) \notin DOMAIN trackedRoutes
        /\ \A i \in 1..Len(f.types) : <<f.recordName, f.types[i]>> \notin DOMAIN records

\* The addresses fit the record type: one IPv4 address for A, one IPv6 address
\* for AAAA, and for A/AAAA one or two, no two of a family, IPv4 first.
IPsFitType(recordType, ips) ==
    CASE recordType = "A" -> Len(ips) = 1 /\ isIPv4(ips[1])
      [] recordType = "AAAA" -> Len(ips) = 1 /\ isIPv6(ips[1])
      [] recordType = "A/AAAA" ->
            \/ Len(ips) = 1 /\ (isIPv4(ips[1]) \/ isIPv6(ips[1]))
            \/ Len(ips) = 2 /\ isIPv4(ips[1]) /\ isIPv6(ips[2])
      [] OTHER -> FALSE

WellFormedEntry(key, e) ==
    /\ key = RouteKey(e.namespace, e.name)
    /\ e.contentMode \in {"gateway-address", "ddns"}
    /\ e.recordType \in {"A", "AAAA", "A/AAAA"}
    /\ e.ttl >= 1
    /\ Len(e.recordName) >= 2
    /\ e.zoneName = LastTwoLabels(e.recordName)
    /\ IPsFitType(e.recordType, e.lastIPs)
    /\ (e.gatewayName # "") <=> (e.contentMode = "gateway-address")

\* C38: every tracked entry is well formed: it is kept under the key of its
\* namespace and name; its content mode is gateway-address or ddns; its record
\* type is A, AAAA or A/AAAA; its ttl is at least 1; its zone is the last two
\* labels of its record name; its last addresses are not empty and fit the
\* record type; and it names a Gateway exactly when its mode is
\* gateway-address.
C38_TrackedEntriesWellFormed ==
    \A key \in DOMAIN trackedRoutes : WellFormedEntry(key, trackedRoutes[key])

C38_Witness ==
    /\ <<"web", "app1">> \in DOMAIN trackedRoutes
    /\ trackedRoutes[<<"web", "app1">>].recordType = "A/AAAA"
    /\ Len(trackedRoutes[<<"web", "app1">>].lastIPs) = 2
    /\ gateways[<<"web", "gw">>].addresses[1][1] = "2001:db8::5"

\* ---------------------------------------------------------------------------
\* Two routes with one hostname.  Both have been applied, app1 has just been
\* deleted in the cluster and its notification waits; app2 stays as it is.
\* ---------------------------------------------------------------------------

SharedEntry(name, mode) ==
    [contentMode |-> mode, namespace |-> "web", name |-> name,
     zoneName |-> <<"example", "com">>, recordName |-> Host, recordType |-> "A",
     ttl |-> 1, proxied |-> FALSE, lastIPs |-> <<"203.0.113.5">>,
     gatewayNamespace |-> IF mode = "gateway-address" THEN "web" ELSE "",
     gatewayName |-> IF mode = "gateway-address" THEN "gw" ELSE ""]

InitShared ==
    /\ cfg = [Strategy |-> StrategyFull]
    /\ gateways = (<<"web", "gw">> :> [addresses |-> Some(<<"203.0.113.5">>)])
    /\ publicIP = [v4 |-> Some("203.0.113.5"), v6 |-> None]
    /\ records = (<<Host, "A">> :>
                    [ID |-> RecordID(Host, "A"), Type |-> "A", Name |-> Host,
                     Content |-> "203.0.113.5", TTL |-> 1, Proxied |-> FALSE,
                     Comment |-> ""])
    /\ pc = [t \in Threads |-> "idle"]
    /\ frame = [t \in Threads |-> NoFrame]
    /\ sweep = NoSweep
    /\ log = [t \in Threads |-> <<>>]
    /\ adapter = None
    /\ run = NoRun
    /\ watcher = NoWatcher
    /\ queue = <<[type |-> "delete",
                  obj |-> [DDNSRoute EXCEPT !.namespace = "web", !.name = "app1"]]>>
    /\ \E y \in {DDNSRoute, GatewayRoute} :
        /\ cache = (<<"web", "app2">> :> [y EXCEPT !.namespace = "web", !.name = "app2"])
        /\ trackedRoutes =
              (<<"web", "app1">> :> SharedEntry("app1", "ddns"))
              @@ (<<"web", "app2">> :>
                    SharedEntry("app2", y.annotations[Ann("content-mode")]))

\* Goroutines that keep running, a ticker that keeps firing, and a cluster API
\* and a provider whose calls, made again and again, succeed at some time.
SpecShared ==
    /\ InitShared
    /\ [][ControllerStep]_vars
    /\ WF_vars(InformerDispatch)
    /\ WF_vars(Tick)
    /\ WF_vars(SweepNext)
    /\ WF_vars(Delete("informer"))
    /\ WF_vars(Untrack("informer"))
    /\ \A t \in Threads : WF_vars(Check(t))
    /\ \A t \in Threads : WF_vars(Upsert(t))
    /\ \A t \in Threads : WF_vars(Store(t))
    /\ \A t \in Threads : WF_vars(Return(t))
    /\ SF_vars(SweepNext /\ pc'["sweep"] = "check")
    /\ \A t \in Threads : SF_vars(Check(t) /\ pc'[t] = "upsert")
    /\ \A t \in Threads : SF_vars(Upsert(t) /\ log'[t][Len(log'[t])].err = "")

\* The deletion of app1 has been processed, and app2 is tracked.
SharedDeletionProcessed ==
    /\ pc["informer"] = "done"
    /\ frame["informer"].kind = "delete"
    /\ <<"web", "app2">> \in DOMAIN trackedRoutes

\* C39: deleting a route does not take away the record that another tracked
\* route of the same record name and type wants: once the deletion is
\* processed the record is at the provider, or a sweep puts it back.
C39_SharedRecordSurvives == SharedDeletionProcessed ~> RecordAsDesired

\* ---------------------------------------------------------------------------
\* main: the configuration is loaded from the environment before anything
\* else is started.
\* ---------------------------------------------------------------------------

\* What STRATEGY may hold: nothing, every text of up to MaxStrategyLen
\* characters over some letters of "full" in both cases, and some spellings
\* and misspellings of "upsert-only".
StrategyTexts ==
    SeqsUpTo({"f", "F", "u", "l", "L"}, MaxStrategyLen)
    \cup { <<"u", "p", "s", "e", "r", "t", "-", "o", "n", "l", "y">>,
           <<"U", "p", "s", "e", "r", "t", "-", "O", "n", "l", "y">>,
           <<"U", "P", "S", "E", "R", "T", "-", "O", "N", "L", "Y">>,
           <<"u", "p", "s", "e", "r", "t", "_", "o", "n", "l", "y">>,
           <<"u", "p", "s", "e", "r", "t">>,
           <<"d", "e", "l", "e", "t", "e">> }

\* main, lines 18-22: Load, and the process ends when Load fails; otherwise
\* the controller is built with the configuration and run.
LoadConfig ==
    /\ run.main = "loading"
    /\ LET r == Load(adapter[1].env)
       IN /\ adapter' = Some([op |-> "Load", env |-> adapter[1].env, err |-> r.err])
          /\ cfg' = IF r.err THEN cfg ELSE r.cfg[1]
          /\ run' = [run EXCEPT !.main = IF r.err THEN "exited" ELSE "blocked"]
    /\ UNCHANGED <<watcher, cache, queue, gateways, publicIP, records, trackedRoutes, pc,
                   frame, sweep, log>>

InitLoad ==
    /\ cfg = [Strategy |-> ""]
    /\ cache = EmptyMap
    /\ queue = <<>>
    /\ gateways = EmptyMap
    /\ publicIP = [v4 |-> None, v6 |-> None]
    /\ records = EmptyMap
    /\ trackedRoutes = EmptyMap
    /\ pc = [t \in Threads |-> "idle"]
    /\ frame = [t \in Threads |-> NoFrame]
    /\ sweep = NoSweep
    /\ log = [t \in Threads |-> <<>>]
    /\ watcher = NoWatcher
    /\ run = [NoRun EXCEPT !.main = "loading"]
    /\ \E token \in {"", "secret"}, strategy \in StrategyTexts :
        adapter = Some([op |-> "Getenv",
                        env |-> [CLOUDFLARE_API_TOKEN |-> token, STRATEGY |-> strategy],
                        err |-> FALSE])

SpecLoad == InitLoad /\ [][LoadConfig]_vars

\* The text is the word, letter by letter, in either case.
SpellsIgnoringCase(str, word) ==
    LET upper == [c \in {"f", "u", "l", "p", "s", "e", "r", "t", "o", "n", "y", "-"} |->
                     CASE c = "f" -> "F" [] c = "u" -> "U" [] c = "l" -> "L"
                       [] c = "p" -> "P" [] c = "s" -> "S" [] c = "e" -> "E"
                       [] c = "r" -> "R" [] c = "t" -> "T" [] c = "o" -> "O"
                       [] c = "n" -> "N" [] c = "y" -> "Y" [] c = "-" -> "-"]
    IN /\ Len(str) = Len(word)
       /\ \A i \in 1..Len(word) : str[i] \in {word[i], upper[word[i]]}

\* C40: loading the configuration fails, and the controller is never started,
\* exactly when CLOUDFLARE_API_TOKEN is empty or STRATEGY holds a text that
\* is neither "full" nor "upsert-only" in any mix of cases; without a
\* STRATEGY the strategy is full; and ShouldDelete is true of the loaded
\* configuration exactly when the strategy asked for is full.
C40_ConfigLoading ==
    adapter # None /\ adapter[1].op = "Load" =>
        LET env == adapter[1].env
            asksFull == env.STRATEGY = <<>> \/ SpellsIgnoringCase(env.STRATEGY, <<"f", "u", "l", "l">>)
            asksUpsertOnly ==
                SpellsIgnoringCase(env.STRATEGY,
                                   <<"u", "p", "s", "e", "r", "t", "-", "o", "n", "l", "y">>)
        IN /\ (run.main = "exited") <=>
                  (env.CLOUDFLARE_API_TOKEN = "" \/ ~(asksFull \/ asksUpsertOnly))
           /\ run.main = "exited" <=> adapter[1].err
           /\ ~adapter[1].err =>
                  /\ cfg.Strategy = IF asksFull THEN StrategyFull ELSE StrategyUpsertOnly
                  /\ ShouldDelete(cfg) <=> asksFull

C40_Witness ==
    /\ adapter # None /\ adapter[1].op = "Load"
    /\ adapter[1].env.STRATEGY = <<"F", "u", "L", "l">>
    /\ run.main = "blocked"
    /\ cfg.Strategy = StrategyFull

====
